---- MODULE Spec2Model ----
(***************************************************************************)
(* Topologic: the dimensional state chain (topologic::state), its metadata *)
(* encoder (state::metadata) and attribute-tree decoder (topologic::parse, *)
(* topologic::parseModel), the model dispatch functor (updateModel) and    *)
(* the raster renderer's frame (renderGL::operator()).                     *)
(*                                                                         *)
(* Numbers of the base type Q are modelled as integers in units of 1e-7,   *)
(* so 1.0 is Unit and 0.45 is 4500000.  Text is modelled by what the       *)
(* stream inserters write and by what std::stold / std::stoi read back.    *)
(***************************************************************************)
EXTENDS Integers, Sequences, FiniteSets, TLC

VARIABLES
    src,     \* a state<Q,MaxDim> object: the one that is described (encoded)
    dst,     \* another state<Q,MaxDim> object: decoded into, dispatched on
    heap,    \* the renderers ever allocated with new; a pointer is an index
    parser,  \* the xml::parser handed to parse / parseModel
    call,    \* the last completed (or running) call, its arguments and result
    pc,      \* position inside updateModel::apply
    tmp,     \* a temporary of the running handler: the pointer returned by
             \* new inside updateModel::apply, the settings updateModel found,
             \* the settings reconfigureWithIndex: found and those it adjusted,
             \* the context node a pair of decodes found, the axis name built
    gl,      \* the OpenGL context the raster renderer draws into
    svg,     \* state::svg.output, the stream the vector renderer writes to
    defaults, \* the settings store of the iOS frontend (NSUserDefaults)
    json     \* the efgy::json::value handed to parse / parseModel

vars == <<src, dst, heap, parser, call, pc, tmp, gl, svg, defaults, json>>

---------------------------------------------------------------------------
(* Bounds of the model *)

\* d of state<Q,d>: the state chain has the dimensions 2..MaxDim
MaxDim == 4

\* how many renderers are allocated in one behaviour
MaxRenderers == 3

\* how many frames are produced in one behaviour
MaxFrames == 3

\* how many times a client decodes (or refreshes) in one behaviour
MaxCalls == 2

\* depth of the GL matrix stack when the first frame starts
MaxStack == 2

\* the greatest axis index i the camera loops of metadata and parse name
MaxAxis == 53

Dims == 2..MaxDim

---------------------------------------------------------------------------
(* Numbers and text *)

Unit == 10 * 1000 * 1000

\* significant digits written by operator<<(double) on a default stream
StreamPrecision == 6

RECURSIVE Pow10(_)
Pow10(n) == IF n = 0 THEN 1 ELSE 10 * Pow10(n - 1)

Abs(v) == IF v < 0 THEN -v ELSE v

Sign(v) == IF v < 0 THEN -1 ELSE 1

RECURSIVE NumDigits(_)
NumDigits(a) == IF a < 10 THEN 1 ELSE 1 + NumDigits(a \div 10)

\* a piece of text: a word, a run of characters, or a decimal real literal
\* (mantissa m, decimal exponent e, in units of 1e-7)
Word(w) == [k |-> "word", w |-> w, c |-> <<>>, m |-> 0, e |-> 0]

Chars(c) == [k |-> "chars", w |-> "", c |-> c, m |-> 0, e |-> 0]

Real(m, e) == [k |-> "real", w |-> "", c |-> <<>>, m |-> m, e |-> e]

Empty == Word("")

DigitChar == <<"0", "1", "2", "3", "4", "5", "6", "7", "8", "9">>

IsDigit(ch) == \E n \in 0..9 : DigitChar[n + 1] = ch

DigitVal(ch) == CHOOSE n \in 0..9 : DigitChar[n + 1] = ch

\* operator<<(unsigned): the decimal digits of n
RECURSIVE DecStr(_)
DecStr(n) ==
    IF n < 10 THEN <<DigitChar[n + 1]>>
    ELSE DecStr(n \div 10) \o <<DigitChar[(n % 10) + 1]>>

\* the value of the longest prefix of c made of digits, from accumulator acc
RECURSIVE LeadingDigits(_, _)
LeadingDigits(c, acc) ==
    IF c = <<>> \/ ~IsDigit(Head(c)) THEN acc
    ELSE LeadingDigits(Tail(c), 10 * acc + DigitVal(Head(c)))

\* the value v rounded to StreamPrecision significant decimal digits
RoundSig(v) ==
    LET a == Abs(v)
        n == NumDigits(a)
        q == Pow10(n - StreamPrecision)
    IN  IF n <= StreamPrecision THEN v
        ELSE Sign(v) * (((a + (q \div 2)) \div q) * q)

RECURSIVE StripZeros(_, _)
StripZeros(m, e) ==
    IF m # 0 /\ m % 10 = 0 THEN StripZeros(m \div 10, e + 1) ELSE Real(m, e)

\* operator<<(double(v)): at most StreamPrecision significant digits
StreamDouble(v) == StripZeros(RoundSig(v), 0)

\* std::stold: [ok, v]; not ok is std::invalid_argument being thrown
stold(t) ==
    CASE t.k = "real"  -> [ok |-> TRUE, v |-> t.m * Pow10(t.e)]
      [] t.k = "chars" ->
            IF IsDigit(Head(t.c))
            THEN [ok |-> TRUE, v |-> LeadingDigits(t.c, 0) * Unit]
            ELSE [ok |-> FALSE, v |-> 0]
      [] t.k = "word"  -> [ok |-> FALSE, v |-> 0]

\* std::stoi: [ok, v]; reads the leading digits and ignores what follows them
stoi(t) ==
    CASE t.k = "chars" ->
            IF IsDigit(Head(t.c))
            THEN [ok |-> TRUE, v |-> LeadingDigits(t.c, 0)]
            ELSE [ok |-> FALSE, v |-> 0]
      [] t.k = "real"  -> [ok |-> TRUE, v |-> (t.m * Pow10(t.e)) \div Unit]
      [] t.k = "word"  -> [ok |-> FALSE, v |-> 0]

\* XPath number(): a string that is not entirely a number is NaN (-1 here)
XNumber(t) ==
    IF t.k = "chars" /\ \A i \in 1..Len(t.c) : IsDigit(t.c[i])
    THEN LeadingDigits(t.c, 0)
    ELSE -1

---------------------------------------------------------------------------
(* The state chain: topologic::state<Q,d> *)

\* a vector of dimension k is indexed 0..k-1, a matrix 0..k by 0..k
ZeroVector(k) == [i \in 0..(k - 1) |-> 0]

IdentityMatrix(k) ==
    [i \in 0..k |-> [j \in 0..k |-> IF i = j THEN Unit ELSE 0]]

\* fromp as the constructors set it
DefaultPolar(k) ==
    IF k >= 4 THEN [i \in 0..(k - 1) |-> IF i = 0 THEN 2 * Unit ELSE 15700000]
    ELSE IF k = 3 THEN [i \in 0..2 |-> IF i = 0 THEN 3 * Unit ELSE Unit]
    ELSE ZeroVector(k)

RGBA(r, g, b, a) == [red |-> r, green |-> g, blue |-> b, alpha |-> a]

\* a state chain as its constructors leave it
NewState ==
    [ polarCoordinates |-> TRUE,
      fromp            |-> [k \in Dims |-> DefaultPolar(k)],
      from             |-> [k \in Dims |-> ZeroVector(k)],
      projection       |-> [k \in 3..MaxDim |-> ZeroVector(k)],
      transformation   |-> [k \in Dims |-> IdentityMatrix(k)],
      parameter        |-> [ polarRadius       |-> Unit,
                             polarPrecision    |-> 10 * Unit,
                             radius            |-> Unit,
                             radius2           |-> Unit \div 2,
                             constant          |-> 9 * (Unit \div 10),
                             precision         |-> 10 * Unit,
                             iterations        |-> 4,
                             seed              |-> 0,
                             functions         |-> 3,
                             preRotate         |-> TRUE,
                             postRotate        |-> FALSE,
                             flameCoefficients |-> 3 ],
      exportMultiplier |-> 2 * Unit,
      background       |-> RGBA(4500000, 4500000, 6500000, Unit),
      wireframe        |-> RGBA(Unit, Unit, Unit, Unit),
      surface          |-> RGBA(Unit, Unit, Unit, Unit \div 10),
      model            |-> 0,
      idPrefix         |-> "" ]

\* Values a client has stored in the public members of a state: scheme 1 has
\* values of at most six significant digits, scheme 2 values of seven; f tells
\* the members apart.
MemberValue(p, f) == IF p = 1 THEN f * 1000 + 500 ELSE 1234007 + f * 10

\* the state chain after a client has set its members following scheme p
\* (p = 0: as constructed) and chosen the camera mode
ClientState(p, polar) ==
    IF p = 0 THEN [NewState EXCEPT !.polarCoordinates = polar]
    ELSE
    [ polarCoordinates |-> polar,
      fromp            |-> [k \in Dims |-> [i \in 0..(k - 1) |->
                                MemberValue(p, 100 + 10 * k + i)]],
      from             |-> [k \in Dims |-> [i \in 0..(k - 1) |->
                                MemberValue(p, 200 + 10 * k + i)]],
      projection       |-> [k \in 3..MaxDim |-> ZeroVector(k)],
      transformation   |-> [k \in Dims |-> [i \in 0..k |-> [j \in 0..k |->
                                MemberValue(p, 300 + 40 * k + 6 * i + j)]]],
      parameter        |-> [ polarRadius       |-> MemberValue(p, 21),
                             polarPrecision    |-> MemberValue(p, 22),
                             radius            |-> MemberValue(p, 23),
                             radius2           |-> MemberValue(p, 26),
                             constant          |-> MemberValue(p, 27),
                             precision         |-> MemberValue(p, 24),
                             iterations        |-> 4 + p,
                             seed              |-> p,
                             functions         |-> 3 + p,
                             preRotate         |-> (p = 1),
                             postRotate        |-> (p = 2),
                             flameCoefficients |-> 3 + p ],
      exportMultiplier |-> MemberValue(p, 25),
      background       |-> RGBA(MemberValue(p, 1), MemberValue(p, 2),
                                MemberValue(p, 3), MemberValue(p, 4)),
      wireframe        |-> RGBA(MemberValue(p, 5), MemberValue(p, 6),
                                MemberValue(p, 7), MemberValue(p, 8)),
      surface          |-> RGBA(MemberValue(p, 9), MemberValue(p, 10),
                                MemberValue(p, 11), MemberValue(p, 12)),
      model            |-> 0,
      idPrefix         |-> IF p = 1 THEN "a-" ELSE "b-" ]

---------------------------------------------------------------------------
(* Axis names *)

\* the array of state.h: its 52 letters and the terminating NUL
cartesianDimensions ==
    << "x", "y", "z", "w", "v", "u", "t", "s", "r", "q", "p", "o", "n",
       "m", "l", "k", "j", "i", "h", "g", "f", "e", "d", "c", "b", "a",
       "Z", "Y", "X", "W", "V", "U", "T", "S", "R", "Q", "P", "O", "N",
       "M", "L", "K", "J", "I", "H", "G", "F", "E", "D", "C", "B", "A",
       "NUL" >>

\* sizeof(cartesianDimensions)
SizeofCartesianDimensions == Len(cartesianDimensions)

\* the attribute name state<Q,d>::metadata writes for axis i
EncAxisName(i) ==
    IF i < SizeofCartesianDimensions THEN cartesianDimensions[i + 1]
    ELSE "d-" \o ToString(i)

\* the attribute name parse<Q,d> reads for axis i
DecAxisName(i) ==
    IF i < SizeofCartesianDimensions THEN cartesianDimensions[i + 1]
    ELSE "d-" \o ToString(i)

---------------------------------------------------------------------------
(* Documents: the elements of the topologic namespace, in document order,  *)
(* all children of one parent (as metadata() writes them); an element's    *)
(* attributes are <<name, text>> pairs                                     *)

\* an element inside the container parent; containers are elements of other
\* namespaces and have no part but to hold their children
ElementIn(parent, name, attrs) ==
    [name |-> name, attrs |-> attrs, parent |-> parent]

\* an element of the container metadata() is embedded in
Element(name, attrs) == ElementIn(0, name, attrs)

HasAttr(el, a) == \E n \in 1..Len(el.attrs) : el.attrs[n][1] = a

\* the string value of @a in el: empty text when el has no such attribute
Attr(el, a) ==
    IF HasAttr(el, a)
    THEN el.attrs[CHOOSE n \in 1..Len(el.attrs) : el.attrs[n][1] = a][2]
    ELSE Empty

\* count(@*)
CountAttrs(el) == Len(el.attrs)

---------------------------------------------------------------------------
(* Encoding: state::metadata *)

\* a camera element whose angles are numbered one too high
CameraElementShifted(s, d) ==
    Element("camera",
        IF s.polarCoordinates
        THEN [n \in 1..d |->
                IF n = 1 THEN <<"radius", StreamDouble(s.fromp[d][0])>>
                ELSE <<"theta-" \o ToString(n),
                       StreamDouble(s.fromp[d][n - 1])>>]
        ELSE [n \in 1..d |->
                <<EncAxisName(n), StreamDouble(s.from[d][n - 1])>>])

\* a camera element that also carries the mode the base case writes
CameraElementWithMode(s, d) ==
    Element("camera",
        << <<"mode", Word(IF s.polarCoordinates THEN "polar"
                          ELSE "cartesian")>> >>
        \o (IF s.polarCoordinates
            THEN [n \in 1..d |->
                    IF n = 1 THEN <<"radius", StreamDouble(s.fromp[d][0])>>
                    ELSE <<"theta-" \o ToString(n - 1),
                           StreamDouble(s.fromp[d][n - 1])>>]
            ELSE [n \in 1..d |->
                    <<EncAxisName(n - 1), StreamDouble(s.from[d][n - 1])>>]))

\* <t:camera .../> of state<Q,d>, d >= 3
CameraElement(s, d) ==
    Element("camera",
        IF s.polarCoordinates
        THEN [n \in 1..d |->
                IF n = 1 THEN <<"radius", StreamDouble(s.fromp[d][0])>>
                ELSE <<"theta-" \o ToString(n - 1),
                       StreamDouble(s.fromp[d][n - 1])>>]
        ELSE [n \in 1..d |->
                <<EncAxisName(n - 1), StreamDouble(s.from[d][n - 1])>>])

ColourElement(name, c) ==
    Element(name, << <<"red", StreamDouble(c.red)>>,
                     <<"green", StreamDouble(c.green)>>,
                     <<"blue", StreamDouble(c.blue)>>,
                     <<"alpha", StreamDouble(c.alpha)>> >>)

\* a model element that writes the depth where the render depth belongs
ModelElementDepthTwice(r) ==
    Element("model",
        << <<"type", Word(r.id)>>,
           <<"depth", Chars(DecStr(r.depth) \o <<"D">>)>>,
           <<"render-depth", Chars(DecStr(r.depth) \o <<"D">>)>> >>)

\* <t:model .../> of the bound renderer r
ModelElement(r) ==
    Element("model",
        << <<"type", Word(r.id)>>,
           <<"depth", Chars(DecStr(r.depth) \o <<"D">>)>>,
           <<"render-depth", Chars(DecStr(r.renderDepth) \o <<"D">>)>> >>)

\* state<Q,2>::metadata
Metadata2(s, hp) ==
    << Element("camera",
         << <<"mode", Word(IF s.polarCoordinates THEN "polar"
                           ELSE "cartesian")>> >>) >>
    \o (IF s.model # 0 THEN <<ModelElement(hp[s.model])>> ELSE <<>>)
    \o << Element("options",
            << <<"radius", StreamDouble(s.parameter.polarRadius)>>,
               <<"id-prefix", Word(s.idPrefix)>> >>),
          Element("precision",
            << <<"polar", StreamDouble(s.parameter.polarPrecision)>>,
               <<"export-multiplier", StreamDouble(s.exportMultiplier)>> >>),
          ColourElement("colour-background", s.background),
          ColourElement("colour-wireframe", s.wireframe),
          ColourElement("colour-surface", s.surface) >>

\* state<Q,d>::metadata: the camera of d, then the lower dimension's metadata
RECURSIVE MetadataDim(_, _, _)
MetadataDim(s, hp, d) ==
    IF d <= 2 THEN Metadata2(s, hp)
    ELSE <<CameraElement(s, d)>> \o MetadataDim(s, hp, d - 1)

Metadata(s, hp) == MetadataDim(s, hp, MaxDim)

---------------------------------------------------------------------------
(* Value trees: efgy::json::value *)

\* a value: its type, and the number (in units of 1e-7), the text, the
\* elements or the <<key, value>> members of values of that type
JValue(type, n, s, a, o) == [type |-> type, n |-> n, s |-> s, a |-> a, o |-> o]

JNull == JValue("null", 0, Empty, <<>>, <<>>)

JBool(b) == JValue(IF b THEN "yes" ELSE "no", 0, Empty, <<>>, <<>>)

JNumber(n) == JValue("number", n, Empty, <<>>, <<>>)

JString(text) == JValue("string", 0, text, <<>>, <<>>)

JArray(elements) == JValue("array", 0, Empty, elements, <<>>)

JObject(members) == JValue("object", 0, Empty, <<>>, members)

HasKey(val, key) == \E n \in 1..Len(val.o) : val.o[n][1] = key

\* value(key): the member of an object, null for a key it does not have
Get(val, key) ==
    IF HasKey(val, key)
    THEN val.o[CHOOSE n \in 1..Len(val.o) : val.o[n][1] = key][2]
    ELSE JNull

\* value[i], counting from 0
At(val, i) == val.a[i + 1]

\* value.size()
Size(val) == Len(val.a)

\* (bool)value
AsBool(val) == val.type = "yes"

---------------------------------------------------------------------------
(* The XML parser wrapper: xml::parser *)

\* a parser over the elements doc; node is the XPath context node, an index
\* into doc, 0 being the document itself; document and xpathContext are the
\* two libxml2 pointers ("null", "live", or "freed" when what they point to
\* has been freed); failed names the library call that failed while the
\* parser was constructed
Parser(valid, doc) ==
    [valid |-> valid, doc |-> doc, node |-> 0,
     document |-> IF valid THEN "live" ELSE "null",
     xpathContext |-> IF valid THEN "live" ELSE "null",
     failed |-> IF valid THEN "none" ELSE "xmlReadMemory"]

\* the library calls of the constructor, in the order it makes them
LibraryCalls ==
    {"xmlReadMemory", "xmlXPathNewContext", "xmlXPathRegisterNs(svg)",
     "xmlXPathRegisterNs(topologic)"}

\* the member initialisers of xml::parser::parser: xmlReadMemory returns 0
\* for a document it cannot read
ReadMemory(doc, failed) ==
    [valid |-> FALSE,
     doc |-> IF failed = "xmlReadMemory" THEN <<>> ELSE doc,
     node |-> 0,
     document |-> IF failed = "xmlReadMemory" THEN "null" ELSE "live",
     xpathContext |-> "null",
     failed |-> failed]

\* xmlFreeDoc(document), xmlXPathFreeContext(xpathContext): no-ops on 0
FreeDoc(p) ==
    [p EXCEPT !.document = IF @ = "null" THEN "null" ELSE "freed",
              !.doc = <<>>]

FreeContext(p) ==
    [p EXCEPT !.xpathContext = IF @ = "null" THEN "null" ELSE "freed"]

\* lines 220-225
NewContext(p) ==
    IF p.failed = "xmlXPathNewContext"
    THEN [FreeDoc(p) EXCEPT !.document = "null"]
    ELSE [p EXCEPT !.xpathContext = "live"]

\* lines 227-245, once per namespace: xmlXPathRegisterNs returns -1 for the
\* context 0 and for a prefix it cannot register
RegisterNs(p, ns) ==
    IF p.xpathContext = "null" \/ p.failed = ns
    THEN [FreeDoc([FreeContext(p) EXCEPT !.xpathContext = "null"])
             EXCEPT !.document = "null"]
    ELSE p

\* lines 214-219 and 220-247
Constructed(p) ==
    IF p.document = "null" THEN p
    ELSE [RegisterNs(RegisterNs(NewContext(p), "xmlXPathRegisterNs(svg)"),
                     "xmlXPathRegisterNs(topologic)")
             EXCEPT !.valid = TRUE]

\* xml::parser::parser(data, filename), failed being the library call that
\* fails, "none" when all succeed
ParserNew(doc, failed) == Constructed(ReadMemory(doc, failed))

\* "//topologic:<name>[...][1]": the first in document order of the elements
\* nodes that satisfy the predicates, 0 when there is none
FirstMatch(nodes) ==
    IF nodes = {} THEN 0
    ELSE CHOOSE n \in nodes : \A o \in nodes : n <= o

\* the node set of "//topologic:<name>[...][1]": of the elements nodes that
\* satisfy the predicates, the first child of every container
FirstOfParent(doc, nodes) ==
    {n \in nodes : \A o \in nodes : doc[o].parent = doc[n].parent => n <= o}

\* xml::parser::updateContext on a node set: the new context node, or 0 when
\* it returns false, which it does unless the set holds exactly one node
UpdateContext(nodeset) ==
    IF Cardinality(nodeset) = 1 THEN CHOOSE n \in nodeset : TRUE ELSE 0

\* "following-sibling::topologic:<name>[...][1]" from the context node
NextSibling(doc, nodes, node) ==
    FirstMatch({n \in nodes : n > node /\ doc[n].parent = doc[node].parent})

\* the string value of @a of the element node, empty for no element
AttrOf(doc, node, a) == IF node = 0 THEN Empty ELSE Attr(doc[node], a)

\* evaluate("//topologic:<name>/@<a>"): the string value of the first such
\* attribute in document order
EvaluateFirst(doc, name, a) ==
    AttrOf(doc,
           FirstMatch({n \in 1..Len(doc) :
                          doc[n].name = name /\ HasAttr(doc[n], a)}),
           a)

---------------------------------------------------------------------------
(* Decoding: topologic::parse over an xml::parser *)

\* A decode in progress: the state chain s, the parser's context node, and
\* whether an exception has left the function (at: the d of the parse<Q,d>
\* that threw, 0 when none did).
Running(s, node) == [s |-> s, node |-> node, thrown |-> FALSE, at |-> 0]

\* a member of the state chain: of dimension d's camera or matrix, or (d = 0)
\* of the base
Member(name, d, i, j) == [name |-> name, d |-> d, i |-> i, j |-> j]

\* the assignment "s.<member> = v"; an integral member keeps the integral
\* part of a number
SetMember(s, m, v) ==
    CASE m.name = "fromp" -> [s EXCEPT !.fromp[m.d][m.i] = v]
      [] m.name = "from"  -> [s EXCEPT !.from[m.d][m.i] = v]
      [] m.name = "transformation" ->
            [s EXCEPT !.transformation[m.d][m.i][m.j] = v]
      [] m.name = "parameter.precision"  -> [s EXCEPT !.parameter.precision = v]
      [] m.name = "parameter.radius"     -> [s EXCEPT !.parameter.radius = v]
      [] m.name = "parameter.radius2"    -> [s EXCEPT !.parameter.radius2 = v]
      [] m.name = "parameter.constant"   -> [s EXCEPT !.parameter.constant = v]
      [] m.name = "polarCoordinates"     -> [s EXCEPT !.polarCoordinates = v]
      [] m.name = "background.red"       -> [s EXCEPT !.background.red = v]
      [] m.name = "background.green"     -> [s EXCEPT !.background.green = v]
      [] m.name = "background.blue"      -> [s EXCEPT !.background.blue = v]
      [] m.name = "background.alpha"     -> [s EXCEPT !.background.alpha = v]
      [] m.name = "wireframe.red"        -> [s EXCEPT !.wireframe.red = v]
      [] m.name = "wireframe.green"      -> [s EXCEPT !.wireframe.green = v]
      [] m.name = "wireframe.blue"       -> [s EXCEPT !.wireframe.blue = v]
      [] m.name = "wireframe.alpha"      -> [s EXCEPT !.wireframe.alpha = v]
      [] m.name = "surface.red"          -> [s EXCEPT !.surface.red = v]
      [] m.name = "surface.green"        -> [s EXCEPT !.surface.green = v]
      [] m.name = "surface.blue"         -> [s EXCEPT !.surface.blue = v]
      [] m.name = "surface.alpha"        -> [s EXCEPT !.surface.alpha = v]
      [] m.name = "parameter.iterations" ->
            [s EXCEPT !.parameter.iterations = v \div Unit]
      [] m.name = "parameter.seed" ->
            [s EXCEPT !.parameter.seed = v \div Unit]
      [] m.name = "parameter.functions" ->
            [s EXCEPT !.parameter.functions = v \div Unit]
      [] m.name = "parameter.preRotate"  -> [s EXCEPT !.parameter.preRotate = v]
      [] m.name = "parameter.postRotate" ->
            [s EXCEPT !.parameter.postRotate = v]
      [] m.name = "parameter.flameCoefficients" ->
            [s EXCEPT !.parameter.flameCoefficients = v \div Unit]

\* "member = Q(std::stold(value));" with x the outcome of std::stold
StoreOrThrow(r, d, x, m) ==
    IF x.ok THEN [r EXCEPT !.s = SetMember(r.s, m, x.v)]
    ELSE [r EXCEPT !.thrown = TRUE, !.at = d]

\* "if ((value = ...) != "") member = Q(std::stold(value));" inside parse<Q,d>
StoldInto(r, d, value, m) ==
    IF r.thrown \/ value = Empty THEN r
    ELSE StoreOrThrow(r, d, stold(value), m)

\* a loop body that chooses the camera to write by the mode of the state
\* and not by the attributes of the element
CameraAxisByMode(r, el, d, i) ==
    IF ~r.s.polarCoordinates
    THEN StoldInto(r, d, Attr(el, DecAxisName(i)), Member("from", d, i, 0))
    ELSE IF i = 0
    THEN StoldInto(r, d, Attr(el, "radius"), Member("fromp", d, 0, 0))
    ELSE StoldInto(r, d, Attr(el, "theta-" \o ToString(i)),
                   Member("fromp", d, i, 0))

\* the body of the for loop over i of the camera block, lines 457-480
CameraAxis(r, el, d, i) ==
    IF i = 0 /\ Attr(el, "radius") # Empty
    THEN StoldInto(r, d, Attr(el, "radius"), Member("fromp", d, 0, 0))
    ELSE IF Attr(el, "theta-" \o ToString(i)) # Empty
    THEN StoldInto(r, d, Attr(el, "theta-" \o ToString(i)),
                   Member("fromp", d, i, 0))
    ELSE StoldInto(r, d, Attr(el, DecAxisName(i)), Member("from", d, i, 0))

\* the for loop over i, on the context element el
RECURSIVE CameraLoop(_, _, _, _)
CameraLoop(r, el, d, i) ==
    IF i >= d \/ r.thrown THEN r
    ELSE CameraLoop(CameraAxis(r, el, d, i), el, d, i + 1)

IsCamera(el, d) == el.name = "camera" /\ CountAttrs(el) = d

\* the elements "topologic:camera[count(@*) = d]" selects
Cameras(doc, d) == {n \in 1..Len(doc) : IsCamera(doc[n], d)}

\* the do/while over the cameras of d: r has the context at a camera
RECURSIVE CameraSiblings(_, _, _)
RECURSIVE CameraWhile(_, _, _, _)
CameraWhile(done, doc, d, next) ==
    IF done.thrown \/ next = 0 THEN done
    ELSE CameraSiblings([done EXCEPT !.node = next], doc, d)

CameraSiblings(r, doc, d) ==
    CameraWhile(CameraLoop(r, doc[r.node], d, 0), doc, d,
                NextSibling(doc, Cameras(doc, d), r.node))

\* "if (parser.updateContext(...)) do ... while (...)": first is the element
\* the first updateContext selects, 0 when it fails
CameraIf(r, doc, d, first) ==
    IF r.thrown \/ first = 0 THEN r
    ELSE CameraSiblings([r EXCEPT !.node = first], doc, d)

\* lines 454-484
CameraBlock(r, doc, d) ==
    CameraIf(r, doc, d, UpdateContext(FirstOfParent(doc, Cameras(doc, d))))

\* a selector that forgets the depth predicate
IsAnyTransformation(el, d) == el.name = "transformation"

\* "topologic:transformation[@depth = d]"
IsDepthTransformation(el, d) ==
    el.name = "transformation" /\ XNumber(Attr(el, "depth")) = d

DepthTransformations(doc, d) ==
    {n \in 1..Len(doc) : IsDepthTransformation(doc[n], d)}

\* lines 489-491
IdentityReset(r, el, d) ==
    IF Attr(el, "matrix") = Word("identity")
    THEN [r EXCEPT !.s.transformation[d] = IdentityMatrix(d)]
    ELSE r

\* the do/while over the transformations with @depth = d
RECURSIVE IdentitySiblings(_, _, _)
RECURSIVE IdentityWhile(_, _, _, _)
IdentityWhile(done, doc, d, next) ==
    IF next = 0 THEN done
    ELSE IdentitySiblings([done EXCEPT !.node = next], doc, d)

IdentitySiblings(r, doc, d) ==
    IdentityWhile(IdentityReset(r, doc[r.node], d), doc, d,
                  NextSibling(doc, DepthTransformations(doc, d), r.node))

IdentityIf(r, doc, d, first) ==
    IF r.thrown \/ first = 0 THEN r
    ELSE IdentitySiblings([r EXCEPT !.node = first], doc, d)

\* lines 486-495
IdentityBlock(r, doc, d) ==
    IdentityIf(r, doc, d,
        UpdateContext(FirstOfParent(doc, DepthTransformations(doc, d))))

\* lines 502-506 for the cell (i, j)
Cell(r, el, d, i, j) ==
    StoldInto(r, d, Attr(el, "e" \o ToString(i) \o "-" \o ToString(j)),
              Member("transformation", d, i, j))

\* the two for loops over the cells, row by row; n numbers the cells
RECURSIVE CellLoop(_, _, _, _)
CellLoop(r, el, d, n) ==
    IF n >= (d + 1) * (d + 1) \/ r.thrown THEN r
    ELSE CellLoop(Cell(r, el, d, n \div (d + 1), n % (d + 1)), el, d, n + 1)

\* "topologic:transformation[count(@*) = (d+1)^2]"
IsCellTransformation(el, d) ==
    el.name = "transformation" /\ CountAttrs(el) = (d + 1) * (d + 1)

CellTransformations(doc, d) ==
    {n \in 1..Len(doc) : IsCellTransformation(doc[n], d)}

RECURSIVE CellSiblings(_, _, _)
RECURSIVE CellWhile(_, _, _, _)
CellWhile(done, doc, d, next) ==
    IF done.thrown \/ next = 0 THEN done
    ELSE CellSiblings([done EXCEPT !.node = next], doc, d)

CellSiblings(r, doc, d) ==
    CellWhile(CellLoop(r, doc[r.node], d, 0), doc, d,
              NextSibling(doc, CellTransformations(doc, d), r.node))

CellIf(r, doc, d, first) ==
    IF r.thrown \/ first = 0 THEN r
    ELSE CellSiblings([r EXCEPT !.node = first], doc, d)

\* lines 497-512
CellBlock(r, doc, d) ==
    CellIf(r, doc, d,
        UpdateContext(FirstOfParent(doc, CellTransformations(doc, d))))

\* The statements of the fix point parse<Q,1>, lines 549-611, in order: the
\* element and attribute evaluated, the member assigned, and how: "real" is
\* Q(std::stold(value)), "int" the same into an integral member, "polar" and
\* "yes" the comparison of value with that word.
FixStep(name, a, member, how) ==
    [name |-> name, a |-> a, member |-> member, how |-> how]

FixSteps ==
    << FixStep("precision", "polar", "parameter.precision", "real"),
       FixStep("options", "radius", "parameter.radius", "real"),
       FixStep("camera", "mode", "polarCoordinates", "polar"),
       FixStep("colour-background", "red", "background.red", "real"),
       FixStep("colour-background", "green", "background.green", "real"),
       FixStep("colour-background", "blue", "background.blue", "real"),
       FixStep("colour-background", "alpha", "background.alpha", "real"),
       FixStep("colour-wireframe", "red", "wireframe.red", "real"),
       FixStep("colour-wireframe", "green", "wireframe.green", "real"),
       FixStep("colour-wireframe", "blue", "wireframe.blue", "real"),
       FixStep("colour-wireframe", "alpha", "wireframe.alpha", "real"),
       FixStep("colour-surface", "red", "surface.red", "real"),
       FixStep("colour-surface", "green", "surface.green", "real"),
       FixStep("colour-surface", "blue", "surface.blue", "real"),
       FixStep("colour-surface", "alpha", "surface.alpha", "real"),
       FixStep("ifs", "iterations", "parameter.iterations", "int"),
       FixStep("ifs", "seed", "parameter.seed", "int"),
       FixStep("ifs", "functions", "parameter.functions", "int"),
       FixStep("ifs", "pre-rotate", "parameter.preRotate", "yes"),
       FixStep("ifs", "post-rotate", "parameter.postRotate", "yes"),
       FixStep("flame", "coefficients", "parameter.flameCoefficients",
               "int") >>

\* one statement of the fix point: value is what evaluate returned
FixStatement(r, step, value) ==
    IF r.thrown \/ value = Empty THEN r
    ELSE IF step.how \in {"real", "int"}
    THEN StoldInto(r, 1, value, Member(step.member, 0, 0, 0))
    ELSE [r EXCEPT !.s = SetMember(r.s, Member(step.member, 0, 0, 0),
                                   value = Word(step.how))]

\* parse<Q,1>: the statements from the n-th on
RECURSIVE ParseFixPoint(_, _, _)
ParseFixPoint(r, doc, n) ==
    IF n > Len(FixSteps) \/ r.thrown THEN r
    ELSE ParseFixPoint(
            FixStatement(r, FixSteps[n],
                EvaluateFirst(doc, FixSteps[n].name, FixSteps[n].a)),
            doc, n + 1)

\* parse<Q,d>: the blocks of dimension d, then parse<Q,d-1>
RECURSIVE ParseDim(_, _, _)
ParseDim(r, doc, d) ==
    IF r.thrown THEN r
    ELSE IF d <= 1 THEN ParseFixPoint(r, doc, 1)
    ELSE ParseDim(CellBlock(IdentityBlock(CameraBlock(r, doc, d), doc, d),
                            doc, d),
                  doc, d - 1)

\* a parse that takes the renderer off the state chain before it returns
ParseReturnForgetful(r) ==
    [s |-> [r.s EXCEPT !.model = 0], node |-> r.node, ret |-> ~r.thrown,
     thrown |-> r.thrown, at |-> r.at]

\* what parse hands back once the decode r has ended
ParseReturn(r) ==
    [s |-> r.s, node |-> r.node, ret |-> ~r.thrown, thrown |-> r.thrown,
     at |-> r.at]

\* parse(s, parser) on a state<Q,MaxDim>: the state chain and context node it
\* leaves, its return value, and whether it threw instead of returning
Parse(s, p) ==
    IF ~p.valid
    THEN [s |-> s, node |-> p.node, ret |-> FALSE, thrown |-> FALSE, at |-> 0]
    ELSE ParseReturn(ParseDim(Running(s, p.node), p.doc, MaxDim))

---------------------------------------------------------------------------
(* Model dispatch: efgy::geometry::with and the functor updateModel *)

\* the arguments of one efgy::geometry::with call
Request(format, type, depth, rdepth) ==
    [format |-> format, type |-> type, depth |-> depth, rdepth |-> rdepth]

NoRequest == Request(Empty, Empty, -1, -1)

\* the models and vector formats compiled in, each model with the least depth
\* it supports
ModelTypes == {"cube", "sphere", "plane"}

MinDepth(type) == 2

Formats == {"cartesian"}

\* whether with finds a model/depth combination for the request: the state
\* is a state<Q,MaxDim>, so no depth beyond MaxDim is compiled in
Matches(req) ==
    /\ \E f \in Formats : req.format = Word(f)
    /\ \E ty \in ModelTypes :
          req.type = Word(ty) /\ MinDepth(ty) <= req.depth
    /\ req.depth <= req.rdepth
    /\ req.rdepth <= MaxDim

\* a renderer of the heap: render::wrapper<Q,d,adapted,format>(out, tag)
Renderer(req, owner) ==
    [id |-> req.type.w, depth |-> req.depth, renderDepth |-> req.rdepth,
     owner |-> owner, live |-> TRUE]

\* a release that forgets the delete expression
ApplyReleaseLeak(s, hp) ==
    [s |-> [s EXCEPT !.model = 0], heap |-> hp]

\* lines 90-93: "if (out.model) { delete out.model; out.model = 0; }"
ApplyRelease(s, hp) ==
    IF s.model # 0
    THEN [s |-> [s EXCEPT !.model = 0],
          heap |-> [hp EXCEPT ![s.model].live = FALSE]]
    ELSE [s |-> s, heap |-> hp]

\* lines 96-97: the new expression; the pointer is the new renderer's index
ApplyConstruct(hp, req, owner) ==
    [heap |-> Append(hp, Renderer(req, owner)), ptr |-> Len(hp) + 1]

\* an install that reports failure
ApplyInstallSilent(s, ptr) == [s |-> [s EXCEPT !.model = ptr], ret |-> FALSE]

\* lines 95 and 99: the assignment to out.model and the value returned
ApplyInstall(s, ptr) ==
    LET installed == [s EXCEPT !.model = ptr]
    IN  [s |-> installed, ret |-> installed.model # 0]

\* updateModel::apply as a whole: release, construct, install
ApplyInstalled(built, done) ==
    [s |-> done.s, heap |-> built.heap, ret |-> done.ret]

ApplyBuilt(released, built) ==
    ApplyInstalled(built, ApplyInstall(released.s, built.ptr))

ApplyReleased(released, req, owner) ==
    ApplyBuilt(released, ApplyConstruct(released.heap, req, owner))

Apply(s, hp, req, owner) == ApplyReleased(ApplyRelease(s, hp), req, owner)

\* a pass that reports failure whatever the state holds
PassAlwaysFalse(s) == FALSE

\* updateModel::pass: "return out.model != 0;"
Pass(s) == s.model # 0

\* efgy::geometry::with<Q,updateModel,MaxDim>(s, format, type, depth, rdepth)
With(s, hp, req, owner) ==
    IF Matches(req) THEN Apply(s, hp, req, owner)
    ELSE [s |-> s, heap |-> hp, ret |-> Pass(s)]

---------------------------------------------------------------------------
(* Decoding the model: topologic::parseModel over an xml::parser *)

IsModel(el) == el.name = "model" /\ HasAttr(el, "depth") /\ HasAttr(el, "type")

\* the types whose render depth defaults to depth + 1, as line 662-663 spell
\* them
ClosedTypes == {"sphere", "moebius-strip", "klein-bagle"}

\* lines 660-665: the render depth handed on, given the one read
DefaultRenderDepth(type, depth, rdepth) ==
    IF rdepth = 0
    THEN depth + (IF \E ty \in ClosedTypes : type = Word(ty) THEN 1 ELSE 0)
    ELSE rdepth

\* lines 652-665 with depth and given the outcomes of std::stoi: the request,
\* or the exception std::stoi throws
ModelRequestOf(format, type, depth, given) ==
    IF depth.ok /\ given.ok
    THEN [ok |-> TRUE,
          req |-> Request(format, type, depth.v,
                          DefaultRenderDepth(type, depth.v, given.v))]
    ELSE [ok |-> FALSE, req |-> NoRequest]

\* lines 652-658 on the context element el
ModelRequest(format, el) ==
    ModelRequestOf(format, Attr(el, "type"), stoi(Attr(el, "depth")),
        IF Attr(el, "render-depth") # Empty
        THEN stoi(Attr(el, "render-depth"))
        ELSE stoi(Attr(el, "depth")))

\* parseModel returning without a call of with
ParseModelStay(s, hp, node, thrown) ==
    [s |-> s, heap |-> hp, node |-> node, ret |-> FALSE, thrown |-> thrown,
     req |-> NoRequest]

\* line 667: "return efgy::geometry::with<Q, func, d>(...)"
ParseModelWith(w, node, req) ==
    [s |-> w.s, heap |-> w.heap, node |-> node, ret |-> w.ret,
     thrown |-> FALSE, req |-> req]

\* lines 651-670, node being what updateContext selected and m the request
ParseModelAt(s, hp, node, m, owner) ==
    IF ~m.ok THEN ParseModelStay(s, hp, node, TRUE)
    ELSE ParseModelWith(With(s, hp, m.req, owner), node, m.req)

\* line 646-649: the coordinate format
ModelFormat(value) == IF value # Empty THEN value ELSE Word("cartesian")

\* parseModel(s, parser): what it leaves and returns, and the request it
\* handed to with (NoRequest when it did not get there)
ParseModelFrom(s, hp, p, node, owner) ==
    IF ~p.valid \/ node = 0 THEN ParseModelStay(s, hp, p.node, FALSE)
    ELSE ParseModelAt(s, hp, node,
            ModelRequest(
                ModelFormat(EvaluateFirst(p.doc, "coordinates", "format")),
                p.doc[node]),
            owner)

\* the elements "topologic:model[@depth][@type]" selects
Models(doc) == {n \in 1..Len(doc) : IsModel(doc[n])}

ParseModel(s, hp, p, owner) ==
    ParseModelFrom(s, hp, p,
        UpdateContext(FirstOfParent(p.doc, Models(p.doc))), owner)

\* A client decodes a document with both entry points, one after the other
\* on the same parser, each run to its end (its return, or the exception it
\* throws, which the client catches): the state chain, heap and context
\* node left, and the two values returned, parse's first.
Decoded(a, m, last) ==
    [s |-> last.s, heap |-> m.heap, node |-> last.node,
     ret |-> <<a.ret, m.ret>>, thrown |-> a.thrown \/ m.thrown,
     req |-> m.req]

\* "parse(s, parser); parseModel(s, parser);", a being what parse left
ModelAfter(a, m) == Decoded(a, m, m)

ParseThenModel(a, hp, p, owner) ==
    ModelAfter(a, ParseModel(a.s, hp, [p EXCEPT !.node = a.node], owner))

\* "parseModel(s, parser); parse(s, parser);", m being what parseModel left
ParseAfter(m, a) == Decoded(a, m, a)

ModelThenParse(m, p) ==
    ParseAfter(m, Parse(m.s, [p EXCEPT !.node = m.node]))

\* the two calls in the order that begins with first
DecodeBoth(s, hp, p, owner, first) ==
    IF first = "parse" THEN ParseThenModel(Parse(s, p), hp, p, owner)
    ELSE ModelThenParse(ParseModel(s, hp, p, owner), p)

---------------------------------------------------------------------------
(* Decoding a value tree: topologic::parse over an efgy::json::value *)

\* lines 701-707: what the i-th component of the camera c leaves in
\* member, which is s.fromp[i] or s.from[i] of dimension d
JsonCameraAxis(member, c, i) ==
    IF At(c, i).type = "number" THEN At(c, i).n ELSE member[i]

\* a loop that chooses the camera by the mode of the state, as the XML
\* decode's cameras are written by metadata
JsonCameraLoopByMode(s, c, d, polar) ==
    IF s.polarCoordinates
    THEN [s EXCEPT !.fromp[d] =
             [i \in 0..(d - 1) |-> JsonCameraAxis(s.fromp[d], c, i)]]
    ELSE [s EXCEPT !.from[d] =
             [i \in 0..(d - 1) |-> JsonCameraAxis(s.from[d], c, i)]]

\* the for loop over i, lines 700-708
JsonCameraLoop(s, c, d, polar) ==
    IF polar
    THEN [s EXCEPT !.fromp[d] =
             [i \in 0..(d - 1) |-> JsonCameraAxis(s.fromp[d], c, i)]]
    ELSE [s EXCEPT !.from[d] =
             [i \in 0..(d - 1) |-> JsonCameraAxis(s.from[d], c, i)]]

\* a camera loop that takes an array of any size for one of dimension d
JsonCameraAnySize(s, c, d, polar) ==
    IF c.type = "array" /\ Size(c) >= d
    THEN JsonCameraLoop(s, c, d, polar)
    ELSE s

\* lines 699-709: the body of the loop over the cameras
JsonCamera(s, c, d, polar) ==
    IF c.type = "array" /\ Size(c) = d
    THEN JsonCameraLoop(s, c, d, polar)
    ELSE s

\* the range-based for over the cameras, from the n-th on
RECURSIVE JsonCameras(_, _, _, _, _)
JsonCameras(s, cameras, d, n, polar) ==
    IF n > Len(cameras) THEN s
    ELSE JsonCameras(JsonCamera(s, cameras[n], d, polar), cameras, d, n + 1,
                     polar)

\* lines 694-711
JsonCameraBlock(s, val, d) ==
    IF Get(val, "camera").type = "array"
    THEN JsonCameras(s, Get(val, "camera").a, d, 1, AsBool(Get(val, "polar")))
    ELSE s

\* lines 719-722: what the cell (i, j) of the transformation tr leaves in
\* s.transformation.matrix[i][j] of dimension d
JsonCell(s, tr, d, i, j) ==
    IF At(tr, i * (d + 1) + j).type = "number"
    THEN At(tr, i * (d + 1) + j).n
    ELSE s.transformation[d][i][j]

\* the two for loops over the cells, lines 717-724
JsonCellLoop(s, tr, d) ==
    [s EXCEPT !.transformation[d] =
        [i \in 0..d |-> [j \in 0..d |-> JsonCell(s, tr, d, i, j)]]]

\* lines 716-725: the body of the loop over the transformations
JsonTransformation(s, tr, d) ==
    IF tr.type = "array" /\ Size(tr) = (d + 1) * (d + 1)
    THEN JsonCellLoop(s, tr, d)
    ELSE s

RECURSIVE JsonTransformations(_, _, _, _)
JsonTransformations(s, trs, d, n) ==
    IF n > Len(trs) THEN s
    ELSE JsonTransformations(JsonTransformation(s, trs[n], d), trs, d, n + 1)

\* lines 713-727
JsonTransformationBlock(s, val, d) ==
    IF Get(val, "transformation").type = "array"
    THEN JsonTransformations(s, Get(val, "transformation").a, d, 1)
    ELSE s

\* The statements of the fix point, lines 754-810, in order: the key, the
\* member assigned, and how: "real" a number, "int" a number cast to int,
\* "bool" any value but null cast to bool, "colour" the four components of
\* a colour.
JsonStep(key, member, how) == [key |-> key, member |-> member, how |-> how]

JsonSteps ==
    << JsonStep("radius", "parameter.radius", "real"),
       JsonStep("minorRadius", "parameter.radius2", "real"),
       JsonStep("constant", "parameter.constant", "real"),
       JsonStep("precision", "parameter.precision", "real"),
       JsonStep("iterations", "parameter.iterations", "int"),
       JsonStep("seed", "parameter.seed", "int"),
       JsonStep("functions", "parameter.functions", "int"),
       JsonStep("flameCoefficients", "parameter.flameCoefficients", "int"),
       JsonStep("preRotate", "parameter.preRotate", "bool"),
       JsonStep("postRotate", "parameter.postRotate", "bool"),
       JsonStep("background", "background", "colour"),
       JsonStep("wireframe", "wireframe", "colour"),
       JsonStep("surface", "surface", "colour") >>

\* a condition that looks at the array and not at its elements
IsJsonColourUnchecked(c) == c.type = "array" /\ Size(c) >= 5

\* the condition of lines 782-784, 790-792 and 798-800
IsJsonColour(c) ==
    /\ c.type = "array"
    /\ Size(c) >= 5
    /\ \A i \in 1..4 : At(c, i).type = "number"

\* the four assignments of lines 785-788, 793-796 and 801-804
SetJsonColour(s, member, c) ==
    SetMember(
        SetMember(
            SetMember(
                SetMember(s, Member(member \o ".red", 0, 0, 0), At(c, 1).n),
                Member(member \o ".green", 0, 0, 0), At(c, 2).n),
            Member(member \o ".blue", 0, 0, 0), At(c, 3).n),
        Member(member \o ".alpha", 0, 0, 0), At(c, 4).n)

\* one statement of the fix point, c being value(key)
JsonStatement(s, step, c) ==
    CASE step.how \in {"real", "int"} ->
            IF c.type = "number"
            THEN SetMember(s, Member(step.member, 0, 0, 0), c.n)
            ELSE s
      [] step.how = "bool" ->
            IF c.type # "null"
            THEN SetMember(s, Member(step.member, 0, 0, 0), AsBool(c))
            ELSE s
      [] step.how = "colour" ->
            IF IsJsonColour(c) THEN SetJsonColour(s, step.member, c) ELSE s

\* the statements of the fix point from the n-th on
RECURSIVE JsonFixPoint(_, _, _)
JsonFixPoint(s, val, n) ==
    IF n > Len(JsonSteps) THEN s
    ELSE JsonFixPoint(
            JsonStatement(s, JsonSteps[n], Get(val, JsonSteps[n].key)),
            val, n + 1)

\* what parse hands back: the state chain it leaves and its return value
JsonReturn(s, ret) == [s |-> s, ret |-> ret]

\* parse<Q,d>(s, value): lines 689-731, and lines 749-813 for d = 1
RECURSIVE JsonParseDim(_, _, _)
JsonParseDim(s, val, d) ==
    IF val.type # "object" THEN JsonReturn(s, FALSE)
    ELSE IF d <= 1 THEN JsonReturn(JsonFixPoint(s, val, 1), TRUE)
    ELSE JsonParseDim(
            JsonTransformationBlock(JsonCameraBlock(s, val, d), val, d),
            val, d - 1)

\* a decode that reports success whatever the root is
JsonParseAnyRoot(s, val) == JsonReturn(s, TRUE)

\* parse(s, value) on a state<Q,MaxDim>
JsonParse(s, val) == JsonParseDim(s, val, MaxDim)

\* lines 839-862: the arguments parseModel hands to with
JsonModelRequest(val) ==
    Request(IF Get(val, "coordinateFormat").type = "string"
            THEN Get(val, "coordinateFormat").s ELSE Word("cartesian"),
            IF Get(val, "model").type = "string"
            THEN Get(val, "model").s ELSE Word("cube"),
            IF Get(val, "depth").type = "number"
            THEN Get(val, "depth").n \div Unit ELSE 4,
            IF Get(val, "renderDepth").type = "number"
            THEN Get(val, "renderDepth").n \div Unit ELSE 4)

\* parseModel(s, value): lines 834-865
JsonParseModel(s, hp, val, owner) ==
    IF val.type # "object" THEN ParseModelStay(s, hp, 0, FALSE)
    ELSE ParseModelWith(With(s, hp, JsonModelRequest(val), owner), 0,
                        JsonModelRequest(val))

---------------------------------------------------------------------------
(* Calls *)

\* what is remembered of a call: which function, the value it returned,
\* whether it threw instead (at: in which parse<Q,d>; for updateMatrix the d
\* of the state<Q,d> it was called on), the request it handed to with, the state chain and heap it started from, and how many decoder
\* calls there have been
Call(op, ret, thrown, at, req, pre, preHeap, n) ==
    [op |-> op, ret |-> ret, thrown |-> thrown, at |-> at, req |-> req,
     pre |-> pre, preHeap |-> preHeap, n |-> n]

NoCall == Call("none", FALSE, FALSE, 0, NoRequest, NewState, <<>>, 0)

---------------------------------------------------------------------------
(* Documents handed to the decoder besides the encoder's own output *)

Num(v) == StreamDouble(v)

Digits(n) == Chars(DecStr(n))

\* which numeric attribute of ScalarDoc holds the literal "abc"
BadAttrs == {"none", "options/radius", "flame/coefficients"}

Literal(bad, path, text) == IF bad = path THEN Word("abc") ELSE text

\* a document that sets every scalar the fix point reads
ScalarDoc(bad) ==
    << Element("precision",
         << <<"polar", Literal(bad, "precision/polar", Num(8 * Unit))>> >>),
       Element("options",
         << <<"radius", Literal(bad, "options/radius", Num(2 * Unit))>> >>),
       Element("camera", << <<"mode", Word("cartesian")>> >>),
       Element("colour-background",
         << <<"red", Num(1000000)>>, <<"green", Num(2000000)>>,
            <<"blue", Num(3000000)>>, <<"alpha", Num(Unit)>> >>),
       Element("colour-wireframe",
         << <<"red", Num(4000000)>>, <<"green", Num(5000000)>>,
            <<"blue", Num(6000000)>>, <<"alpha", Num(7000000)>> >>),
       Element("colour-surface",
         << <<"red", Num(8000000)>>, <<"green", Num(9000000)>>,
            <<"blue", Num(1500000)>>,
            <<"alpha", Literal(bad, "colour-surface/alpha",
                               Num(2500000))>> >>),
       Element("ifs",
         << <<"iterations", Digits(7)>>, <<"seed", Digits(11)>>,
            <<"functions", Digits(6)>>, <<"pre-rotate", Word("no")>>,
            <<"post-rotate", Word("yes")>> >>),
       Element("flame",
         << <<"coefficients", Literal(bad, "flame/coefficients",
                                      Digits(9))>> >>) >>

\* <topologic:transformation depth="k" matrix="identity"/>
IdentityDoc(k) ==
    << Element("transformation",
         << <<"depth", Digits(k)>>, <<"matrix", Word("identity")>> >>) >>

HandDocs ==
    {ScalarDoc(bad) : bad \in BadAttrs}
    \cup {IdentityDoc(k) : k \in 2..(MaxDim + 1)}

---------------------------------------------------------------------------
(* The settings store of the iOS frontend: NSUserDefaults *)

\* the keys updateModel reads: model is "nil" when stringForKey returns nil
Defaults(model, depth, renderDepth) ==
    [model |-> model, depth |-> depth, renderDepth |-> renderDepth]

\* an empty store: stringForKey gives nil and integerForKey gives 0
NoDefaults == Defaults("nil", 0, 0)

\* the d of the state<GLfloat,MAXDEPTH> the frontend keeps
MAXDEPTH == MaxDim

\* a depth clamp that only raises
ClampDepthLow(d) == IF d.depth < 2 THEN [d EXCEPT !.depth = 2] ELSE d

\* lines 101-108
ClampDepth(d) ==
    IF d.depth < 2 THEN [d EXCEPT !.depth = 2]
    ELSE IF d.depth > MAXDEPTH THEN [d EXCEPT !.depth = MAXDEPTH]
    ELSE d

\* lines 110-117
ClampRenderDepth(d) ==
    IF d.renderDepth < 3 THEN [d EXCEPT !.renderDepth = 3]
    ELSE IF d.renderDepth > MAXDEPTH THEN [d EXCEPT !.renderDepth = MAXDEPTH]
    ELSE d

\* the types of lines 119-121
FlatTypes == {"plane", "moebius-strip", "klein-bagel"}

\* a flat type that keeps the depth it finds
FlatDepthKeep(d) == d

\* lines 123-126
FlatDepth(d) == IF d.depth # 2 THEN [d EXCEPT !.depth = 2] ELSE d

\* lines 130-133
SphereCap(d) ==
    IF d.depth >= MAXDEPTH THEN [d EXCEPT !.depth = MAXDEPTH - 1] ELSE d

\* a sphere that does not lower the depth below the render depth
SphereBelowKeep(d) == d

\* lines 135-139
SphereBelow(d) ==
    IF d.renderDepth <= d.depth THEN [d EXCEPT !.depth = d.renderDepth - 1]
    ELSE d

\* any other type that keeps the render depth it finds
GenericDepthKeep(d) == d

\* lines 143-147
GenericDepth(d) ==
    IF d.renderDepth < d.depth THEN [d EXCEPT !.renderDepth = d.depth]
    ELSE d

\* lines 119-148
TypePolicy(d) ==
    IF d.model \in FlatTypes THEN FlatDepth(d)
    ELSE IF d.model = "sphere" THEN SphereBelow(SphereCap(d))
    ELSE GenericDepth(d)

\* lines 101-148: the settings updateModel leaves for a model that is not nil
UpdateDefaults(d) == TypePolicy(ClampRenderDepth(ClampDepth(d)))

\* lines 150-154: the arguments of with
DefaultsRequest(d) ==
    Request(Word("cartesian"), Word(d.model), d.depth, d.renderDepth)

\* what updateModel leaves: the settings, the state chain and heap, the
\* request handed to with (NoRequest when there was no call) and its result
UpdateModelNil(s, hp, d) ==
    [defaults |-> d, s |-> s, heap |-> hp, req |-> NoRequest, ret |-> FALSE]

UpdateModelWith(w, d) ==
    [defaults |-> d, s |-> w.s, heap |-> w.heap, req |-> DefaultsRequest(d),
     ret |-> w.ret]

UpdateModelOn(s, hp, d) ==
    UpdateModelWith(With(s, hp, DefaultsRequest(d), "dst"), d)

\* iOSAppDelegate updateModel, lines 92-155
UpdateModel(s, hp, d) ==
    IF d.model = "nil" THEN UpdateModelNil(s, hp, d)
    ELSE UpdateModelOn(s, hp, UpdateDefaults(d))

\* the settings whose change reconfigureWithIndex: answers by updateModel
SettingsKeys == {"model", "depth", "renderDepth"}

\* the settings store after the value v has been stored under the key: a
\* model name, or an integer
SetDefault(d, key, v) ==
    CASE key = "model"       -> [d EXCEPT !.model = v]
      [] key = "depth"       -> [d EXCEPT !.depth = v]
      [] key = "renderDepth" -> [d EXCEPT !.renderDepth = v]

\* a depth handler that leaves the render depth alone
DepthChangedKeep(d) == d

\* reconfigureWithIndex:"depth", lines 292-297
DepthChanged(d) ==
    IF d.model = "sphere" /\ d.renderDepth <= d.depth
    THEN [d EXCEPT !.renderDepth = d.depth + 1]
    ELSE d

\* reconfigureWithIndex:"renderDepth", lines 302-307
RenderDepthChanged(d) ==
    IF d.model = "sphere" /\ d.renderDepth <= d.depth
    THEN [d EXCEPT !.depth = d.renderDepth - 1]
    ELSE d

\* what reconfigureWithIndex:index does to the settings before it calls
\* updateModel, lines 286-309
Reconfigured(d, index) ==
    CASE index = "model"       -> d
      [] index = "depth"       -> DepthChanged(d)
      [] index = "renderDepth" -> RenderDepthChanged(d)

\* reconfigureWithIndex:index on the settings found: these, the settings
\* handed to updateModel, and what updateModel leaves
ReconfigureWith(found, adjusted, u) ==
    [found |-> found, adjusted |-> adjusted, defaults |-> u.defaults,
     s |-> u.s, heap |-> u.heap, req |-> u.req, ret |-> u.ret]

ReconfigureOn(s, hp, found, adjusted) ==
    ReconfigureWith(found, adjusted, UpdateModel(s, hp, adjusted))

ReconfigureWithIndex(s, hp, found, index) ==
    ReconfigureOn(s, hp, found, Reconfigured(found, index))

---------------------------------------------------------------------------
(* Encoding and decoding: the specification Spec *)

\* the schemes the members of the described state follow, and those of the
\* state decoded into
SourceSchemes == {1, 2}

TargetSchemes == {0, 1}

\* the requests a client binds the described state's model with
SourceRequests ==
    { Request(Word("cartesian"), Word("cube"), 2, 2),
      Request(Word("cartesian"), Word("sphere"), 2, 3) }

GLContext(depth, gl3d) ==
    [ops |-> <<>>, stack |-> depth, stack0 |-> depth, depthMask |-> TRUE,
     gl3d |-> gl3d, frames |-> 0]

GLIdle == GLContext(0, FALSE)

Init ==
    /\ src \in {ClientState(p, polar) : p \in SourceSchemes, polar \in BOOLEAN}
    /\ dst \in {ClientState(p, polar) : p \in TargetSchemes, polar \in BOOLEAN}
    /\ heap = <<>>
    /\ parser = Parser(FALSE, <<>>)
    /\ call = NoCall
    /\ pc = "idle"
    /\ tmp = 0
    /\ gl = GLIdle
    /\ svg = <<>>
    /\ defaults = NoDefaults
    /\ json = JNull

\* a client binds a model to the state that is described
BindSource(req) ==
    /\ Len(heap) < MaxRenderers
    /\ src.model = 0
    /\ \E w \in {With(src, heap, req, "src")} :
           /\ src' = w.s
           /\ heap' = w.heap
           /\ call' = Call("with", w.ret, FALSE, 0, req, src, heap, call.n)
    /\ UNCHANGED <<dst, parser, pc, tmp, gl, svg, defaults, json>>

\* metadata() of the described state is embedded in a document and a parser
\* is constructed over it
Describe ==
    /\ parser' = Parser(TRUE, Metadata(src, heap))
    /\ call' = Call("metadata", TRUE, FALSE, 0, NoRequest, src, heap, call.n)
    /\ UNCHANGED <<src, dst, heap, pc, tmp, gl, svg, defaults, json>>

\* a parser is constructed over another document
Load(doc) ==
    /\ parser' = Parser(TRUE, doc)
    /\ call' = Call("load", TRUE, FALSE, 0, NoRequest, dst, heap, call.n)
    /\ UNCHANGED <<src, dst, heap, pc, tmp, gl, svg, defaults, json>>

\* parse(dst, parser)
Decode ==
    /\ call.n < MaxCalls
    /\ \E r \in {Parse(dst, parser)} :
           /\ dst' = r.s
           /\ parser' = [parser EXCEPT !.node = r.node]
           /\ call' = Call("parse", r.ret, r.thrown, r.at, NoRequest, dst, heap,
                        call.n + 1)
    /\ UNCHANGED <<src, heap, pc, tmp, gl, svg, defaults, json>>

\* parseModel<Q,MaxDim,updateModel>(dst, parser)
DecodeModel ==
    /\ call.n < MaxCalls
    /\ Len(heap) < MaxRenderers
    /\ \E r \in {ParseModel(dst, heap, parser, "dst")} :
           /\ dst' = r.s
           /\ heap' = r.heap
           /\ parser' = [parser EXCEPT !.node = r.node]
           /\ call' = Call("parseModel", r.ret, r.thrown, 0, r.req, dst, heap,
                        call.n + 1)
    /\ UNCHANGED <<src, pc, tmp, gl, svg, defaults, json>>

\* the entry points a pair of decodes begins with
EntryPoints == {"parse", "parseModel"}

\* the name a pair of calls is remembered by
PairName(first) ==
    IF first = "parse" THEN "parse, parseModel" ELSE "parseModel, parse"

\* parse(dst, parser) and parseModel(dst, parser), in the order that begins
\* with first
DecodePair(first) ==
    /\ call.n < MaxCalls
    /\ Len(heap) < MaxRenderers
    /\ parser.valid
    /\ \E r \in {DecodeBoth(dst, heap, parser, "dst", first)} :
           /\ dst' = r.s
           /\ heap' = r.heap
           /\ parser' = [parser EXCEPT !.node = r.node]
           /\ call' = Call(PairName(first), r.ret, r.thrown, 0, r.req, dst,
                           heap, call.n + 1)
    /\ tmp' = parser.node
    /\ UNCHANGED <<src, pc, gl, svg, defaults, json>>

Next ==
    \/ \E req \in SourceRequests : BindSource(req)
    \/ Describe
    \/ \E doc \in HandDocs : Load(doc)
    \/ Decode
    \/ DecodeModel
    \/ \E first \in EntryPoints : DecodePair(first)

Spec == Init /\ [][Next]_vars

---------------------------------------------------------------------------
(* Dispatch step by step: the specification SpecDispatch                   *)
(* pc follows updateModel::apply: "release" before the if of line 90,      *)
(* "construct" before the new expression, "install" before the assignment  *)
(* of its value to out.model; "destroyed" once the state chain's lifetime  *)
(* has ended                                                               *)

\* the requests with is called with: registered and unregistered types,
\* depths inside and outside what is compiled in (the least and the
\* greatest depth, one below and one above)
DispatchTypes == {"cube", "torus"}

DispatchRequests ==
    { Request(Word("cartesian"), Word(ty), m, r) :
        ty \in DispatchTypes, m \in {1, 2, MaxDim},
        r \in {2, MaxDim, MaxDim + 1} }

InitDispatch ==
    /\ src = NewState
    /\ dst = NewState
    /\ heap = <<>>
    /\ parser = Parser(FALSE, <<>>)
    /\ call = NoCall
    /\ pc = "idle"
    /\ tmp = 0
    /\ gl = GLIdle
    /\ svg = <<>>
    /\ defaults = NoDefaults
    /\ json = JNull

\* with finds a match and enters updateModel::apply
ResolveApply(req) ==
    /\ pc = "idle"
    /\ Len(heap) < MaxRenderers
    /\ Matches(req)
    /\ call' = Call("apply", FALSE, FALSE, 0, req, dst, heap, call.n)
    /\ pc' = "release"
    /\ UNCHANGED <<src, dst, heap, parser, tmp, gl, svg, defaults, json>>

\* with finds no match and returns updateModel::pass
ResolvePass(req) ==
    /\ pc = "idle"
    /\ ~Matches(req)
    /\ call' = Call("pass", Pass(dst), FALSE, 0, req, dst, heap, call.n)
    /\ UNCHANGED <<src, dst, heap, parser, pc, tmp, gl, svg, defaults, json>>

ReleaseStep ==
    /\ pc = "release"
    /\ \E released \in {ApplyRelease(dst, heap)} :
           /\ dst' = released.s
           /\ heap' = released.heap
    /\ pc' = "construct"
    /\ UNCHANGED <<src, parser, call, tmp, gl, svg, defaults, json>>

ConstructStep ==
    /\ pc = "construct"
    /\ \E built \in {ApplyConstruct(heap, call.req, "dst")} :
           /\ heap' = built.heap
           /\ tmp' = built.ptr
    /\ pc' = "install"
    /\ UNCHANGED <<src, dst, parser, call, gl, svg, defaults, json>>

InstallStep ==
    /\ pc = "install"
    /\ \E done \in {ApplyInstall(dst, tmp)} :
           /\ dst' = done.s
           /\ call' = [call EXCEPT !.ret = done.ret]
    /\ pc' = "idle"
    /\ tmp' = 0
    /\ UNCHANGED <<src, heap, parser, gl, svg, defaults, json>>

\* The lifetime of the state chain ends.  state<Q,2> (lines 1273-1321)
\* declares no destructor, and neither do the states derived from it: the
\* implicit one destroys the members, which for the pointer model does
\* nothing to the renderer it points to.
DestroyState(s, hp) == [s |-> s, heap |-> hp]

Destroy ==
    /\ pc = "idle"
    /\ \E gone \in {DestroyState(dst, heap)} :
           /\ dst' = gone.s
           /\ heap' = gone.heap
    /\ pc' = "destroyed"
    /\ call' = Call("~state", FALSE, FALSE, 0, NoRequest, dst, heap, call.n)
    /\ UNCHANGED <<src, parser, tmp, gl, svg, defaults, json>>

NextDispatch ==
    \/ \E req \in DispatchRequests : ResolveApply(req)
    \/ \E req \in DispatchRequests : ResolvePass(req)
    \/ ReleaseStep
    \/ ConstructStep
    \/ InstallStep
    \/ Destroy

SpecDispatch == InitDispatch /\ [][NextDispatch]_vars

---------------------------------------------------------------------------
(* The raster renderer's frame: renderGL::operator() *)

\* fixed point numbers of three decimals, for products that stay in range
Milli(v) == v \div 10000

\* cosine and sine of an angle given in units of 1e-7, in thousandths, by
\* the first terms of their series
Cos(x) ==
    1000 - ((Milli(x) * Milli(x)) \div 2000)
         + ((((Milli(x) * Milli(x)) \div 1000)
             * ((Milli(x) * Milli(x)) \div 1000)) \div 24000)

Sin(x) ==
    Milli(x) - ((((Milli(x) * Milli(x)) \div 1000) * Milli(x)) \div 6000)

\* the product of the sines of the angles v[1..n], in thousandths
RECURSIVE SinProduct(_, _)
SinProduct(v, n) ==
    IF n = 0 THEN 1000 ELSE (SinProduct(v, n - 1) * Sin(v[n])) \div 1000

\* "from = fromp": the conversion of a polar vector of dimension k (radius,
\* then k-1 angles) to cartesian coordinates
PolarToCartesian(v, k) ==
    [i \in 0..(k - 1) |->
        ((Milli(v[0]) * SinProduct(v, i)) \div 1000)
        * (IF i < k - 1 THEN Cos(v[i + 1]) ELSE 1000) * 10]

\* lines 1156-1159 and 1236-1239 of state<Q,k>::updateMatrix:
\* "if (polarCoordinates) from = fromp"
UpdateFrom(s, k) ==
    IF s.polarCoordinates
    THEN [s EXCEPT !.from[k] = PolarToCartesian(s.fromp[k], k)]
    ELSE s

\* lines 1160 and 1240: "projection.updateMatrix()"; a projection is told by
\* the camera position its matrix was computed from
UpdateProjection(s, k) == [s EXCEPT !.projection[k] = s.from[k]]

RECURSIVE UpdateMatrixOf(_, _)

\* an updateMatrix that refreshes its own dimension only
DelegateNone(s, d) == s

\* line 1161: "state<Q,d-1>::updateMatrix()"; state<Q,3>::updateMatrix calls
\* no other
Delegate(s, d) == IF d > 3 THEN UpdateMatrixOf(s, d - 1) ELSE s

\* state<Q,d>::updateMatrix, d >= 3
UpdateMatrixOf(s, d) == Delegate(UpdateProjection(UpdateFrom(s, d), d), d)

\* updateMatrix of the whole chain, a state<Q,MaxDim>
UpdateMatrix(s) == UpdateMatrixOf(s, MaxDim)

Op(name, args) == [op |-> name, args |-> args]

\* the GL calls of a frame with the solid pass drawn before the wireframe
FrameOpsSolidFirst(s, gl3d) ==
    << Op("glClearColor", <<s.background.red, s.background.green,
                            s.background.blue, s.background.alpha>>),
       Op("glClear", <<>>),
       Op("glPushMatrix", <<>>),
       Op("glDepthMask", <<s.surface.alpha < Unit>>),
       Op("glColor4d", <<s.surface.red, s.surface.green, s.surface.blue,
                         s.surface.alpha>>),
       Op("renderSolid", <<>>),
       Op("glDepthMask", <<TRUE>>),
       Op("glColor4d", <<s.wireframe.red, s.wireframe.green,
                         s.wireframe.blue, s.wireframe.alpha>>),
       Op("renderWireframe", <<>>),
       Op("glPopMatrix", <<>>),
       Op("glFlush", <<>>),
       Op("glutSwapBuffers", <<>>) >>

\* lines 1050-1098: the GL calls of one frame, in program order; gl3d tells
\* whether GL3D is defined
FrameOps(s, gl3d) ==
    << Op("glClearColor", <<s.background.red, s.background.green,
                            s.background.blue, s.background.alpha>>),
       Op("glClear", <<>>),
       Op("glPushMatrix", <<>>) >>
    \o (IF gl3d
        THEN << Op("glEnable", <<"GL_DEPTH_TEST">>),
                Op("gluLookAt", <<s.from[3][0], s.from[3][1],
                                  s.from[3][2]>>) >>
        ELSE <<>>)
    \o << Op("glDepthMask", <<TRUE>>),
          Op("glColor4d", <<s.wireframe.red, s.wireframe.green,
                            s.wireframe.blue, s.wireframe.alpha>>),
          Op("renderWireframe", <<>>),
          Op("glDepthMask", <<s.surface.alpha < Unit>>),
          Op("glMaterialfv", <<"GL_SPECULAR">>),
          Op("glMaterialfv", <<"GL_SHININESS">>),
          Op("glMaterialfv", <<"GL_EMISSION">>),
          Op("glColor4d", <<s.surface.red, s.surface.green, s.surface.blue,
                            s.surface.alpha>>),
          Op("renderSolid", <<>>),
          Op("glPopMatrix", <<>>),
          Op("glFlush", <<>>),
          Op("glutSwapBuffers", <<>>) >>

\* what one GL call does to the context: the matrix stack and the depth mask
GLCall(g, o) ==
    [g EXCEPT
       !.ops = Append(g.ops, o),
       !.stack = IF o.op = "glPushMatrix" THEN g.stack + 1
                 ELSE IF o.op = "glPopMatrix" THEN g.stack - 1
                 ELSE g.stack,
       !.depthMask = IF o.op = "glDepthMask" THEN o.args[1]
                     ELSE g.depthMask]

RECURSIVE GLCalls(_, _)
GLCalls(g, ops) ==
    IF ops = <<>> THEN g ELSE GLCalls(GLCall(g, Head(ops)), Tail(ops))

\* renderGL::operator()(updateMatrix): the state and the context it leaves;
\* ops holds the calls of the last frame
RenderGLOn(s, g) ==
    [s |-> s,
     gl |-> GLCalls([g EXCEPT !.frames = g.frames + 1],
                    <<Op("output.str", <<>>)>> \o FrameOps(s, g.gl3d))]

RenderGL(s, g, updateMatrix) ==
    IF updateMatrix
    THEN RenderGLOn(UpdateMatrix(s),
                    [g EXCEPT !.ops = <<Op("updateMatrix", <<>>)>>])
    ELSE RenderGLOn(s, [g EXCEPT !.ops = <<>>])

\* a colour as the style sheet of a vector frame writes it: the channels in
\* per cent, the opacity as it is
SVGStyle(c) ==
    << StreamDouble(c.red * 100), StreamDouble(c.green * 100),
       StreamDouble(c.blue * 100), StreamDouble(c.alpha) >>

\* what renderSVG::operator() does after the refresh: the output stream is
\* emptied, then header, metadata and style sheet are written, the solid is
\* rendered, the wireframe path is opened, rendered and closed
SVGOps(s, hp) ==
    << Op("output.str", <<>>),
       Op("title", <<>>),
       Op("metadata", Metadata(s, hp)),
       Op("style", << SVGStyle(s.background), SVGStyle(s.wireframe),
                      SVGStyle(s.surface) >>),
       Op("renderSolid", <<>>),
       Op("path", <<s.idPrefix>>),
       Op("renderWireframe", <<>>),
       Op("close", <<>>) >>

RenderSVGOn(s, hp, ops) == [s |-> s, svg |-> ops \o SVGOps(s, hp)]

\* a vector frame that refreshes whatever it is asked
RenderSVGAlways(s, hp, updateMatrix) ==
    RenderSVGOn(UpdateMatrix(s), hp, <<Op("updateMatrix", <<>>)>>)

\* renderSVG::operator()(updateMatrix): the state it leaves and the calls it
\* made
RenderSVG(s, hp, updateMatrix) ==
    IF updateMatrix
    THEN RenderSVGOn(UpdateMatrix(s), hp, <<Op("updateMatrix", <<>>)>>)
    ELSE RenderSVGOn(s, hp, <<>>)

\* iOSAppDelegate reconfigureWithIndex:"colour", lines 220-275
ColourScheme(n) ==
    CASE n = 0 -> [background |-> RGBA(4500000, 4500000, 6500000, Unit),
                   wireframe  |-> RGBA(Unit, Unit, Unit, Unit),
                   surface    |-> RGBA(Unit, Unit, Unit, Unit \div 10)]
      [] n = 1 -> [background |-> RGBA(Unit, Unit, Unit, Unit),
                   wireframe  |-> RGBA(0, 0, 0, 7000000),
                   surface    |-> RGBA(0, 0, 0, 5000000)]
      [] n = 2 -> [background |-> RGBA(0, 0, 0, Unit),
                   wireframe  |-> RGBA(0, Unit, 0, 7000000),
                   surface    |-> RGBA(0, Unit, 0, 5000000)]

ReconfigureColour(s, n) ==
    [s EXCEPT !.background = ColourScheme(n).background,
              !.wireframe = ColourScheme(n).wireframe,
              !.surface = ColourScheme(n).surface]

---------------------------------------------------------------------------
(* Frames: the specification SpecRaster *)

\* the opacities a client has given the surface
SurfaceAlphas == {0, Unit \div 10, Unit \div 2, Unit, 2 * Unit}

InitRaster ==
    /\ src = NewState
    /\ dst \in {[ClientState(0, polar) EXCEPT !.surface.alpha = a] :
                   polar \in BOOLEAN, a \in SurfaceAlphas}
    /\ heap = <<>>
    /\ parser = Parser(FALSE, <<>>)
    /\ call = NoCall
    /\ pc = "idle"
    /\ tmp = 0
    /\ gl \in {GLContext(depth, gl3d) : depth \in 0..MaxStack,
                                        gl3d \in BOOLEAN}
    /\ svg = <<>>
    /\ defaults = NoDefaults
    /\ json = JNull

\* the colour setting changes
Recolour(n) ==
    /\ gl.frames < MaxFrames
    /\ dst' = ReconfigureColour(dst, n)
    /\ call' = Call("colour", TRUE, FALSE, 0, NoRequest, dst, heap, call.n)
    /\ UNCHANGED <<src, heap, parser, pc, tmp, gl, svg, defaults, json>>

\* the renderer bound to dst produces a frame
Frame(updateMatrix) ==
    /\ gl.frames < MaxFrames
    /\ \E r \in {RenderGL(dst, gl, updateMatrix)} :
           /\ dst' = r.s
           /\ gl' = r.gl
    /\ call' = Call("frame", updateMatrix, FALSE, 0, NoRequest, dst, heap,
                    call.n)
    /\ UNCHANGED <<src, heap, parser, pc, tmp, svg, defaults, json>>

\* the vector renderer bound to dst produces a frame
FrameSVG(updateMatrix) ==
    /\ \E r \in {RenderSVG(dst, heap, updateMatrix)} :
           /\ dst' = r.s
           /\ svg' = r.svg
    /\ call' = Call("svg", updateMatrix, FALSE, 0, NoRequest, dst, heap,
                    call.n)
    /\ UNCHANGED <<src, heap, parser, pc, tmp, gl, defaults, json>>

NextRaster ==
    \/ \E n \in 0..2 : Recolour(n)
    \/ \E updateMatrix \in BOOLEAN : Frame(updateMatrix)
    \/ \E updateMatrix \in BOOLEAN : FrameSVG(updateMatrix)

SpecRaster == InitRaster /\ [][NextRaster]_vars

---------------------------------------------------------------------------
(* Decoding documents and value trees: the specification SpecTree *)

\* the text of the whole number n
Whole(n) == Num(n * Unit)

\* the first n attributes of such a camera element, in the order written
RECURSIVE AxisAttrs(_, _, _, _)
AxisAttrs(n, k, base, pad) ==
    IF n = 0 THEN <<>>
    ELSE Append(AxisAttrs(n - 1, k, base, pad),
                IF n > k - pad THEN <<"pad-" \o ToString(n), Whole(0)>>
                ELSE <<DecAxisName(n - 1), Whole(base + n)>>)

\* a camera element with k attributes inside the container parent: the first
\* k - pad axes with the values base + 1, base + 2, ..., then pad attributes
\* the decoder does not read
AxisCamera(parent, k, base, pad) ==
    ElementIn(parent, "camera", AxisAttrs(k, k, base, pad))

\* the first n attributes of such a transformation element
RECURSIVE CellAttrs(_, _, _, _)
CellAttrs(n, k, base, pad) ==
    IF n = 0 THEN <<>>
    ELSE Append(CellAttrs(n - 1, k, base, pad),
                IF n > (k + 1) * (k + 1) - pad
                THEN <<"pad-" \o ToString(n), Whole(0)>>
                ELSE << "e" \o ToString((n - 1) \div (k + 1)) \o "-"
                            \o ToString((n - 1) % (k + 1)),
                        Whole(base + n) >>)

\* a transformation element with (k+1)^2 attributes, the last pad of them
\* not cells
CellTransformation(parent, k, base, pad) ==
    ElementIn(parent, "transformation",
              CellAttrs((k + 1) * (k + 1), k, base, pad))

\* two cameras of dimension k among cameras of no dimension, all children of
\* one element
SiblingCameras(k) ==
    << AxisCamera(0, k, 10, 0), AxisCamera(0, MaxDim + 1, 20, 0),
       AxisCamera(0, k, 30, 1), AxisCamera(0, 1, 40, 0) >>

\* two cameras of dimension k that are children of different elements
SplitCameras(k) == << AxisCamera(1, k, 10, 0), AxisCamera(2, k, 30, 1) >>

SiblingCells(k) ==
    << CellTransformation(0, k, 50, 0), CellTransformation(0, k, 100, 2) >>

SplitCells(k) ==
    << CellTransformation(1, k, 50, 0), CellTransformation(2, k, 100, 2) >>

\* a camera of dimension k and the camera mode the fix point reads
ModeCameras(k) ==
    << AxisCamera(0, k, 10, 0),
       Element("camera", << <<"mode", Word("cartesian")>> >>) >>

\* fragments of sizes that belong to no dimension of the state chain
SkippedDoc ==
    << AxisCamera(0, MaxDim + 1, 20, 0), AxisCamera(0, 1, 40, 0),
       CellTransformation(0, MaxDim + 1, 150, 0) >>

\* <topologic:model type=... depth=... [render-depth=...]/>, rdepth < 0 for
\* no render-depth attribute
ModelDoc(type, depth, rdepth) ==
    << Element("model",
         << <<"type", Word(type)>>, <<"depth", Digits(depth)>> >>
         \o (IF rdepth < 0 THEN <<>>
             ELSE << <<"render-depth", Digits(rdepth)>> >>)) >>

\* the model types of the documents and value trees
TreeTypes == {"sphere", "klein-bagel", "cube"}

TreeDocs ==
    {SiblingCameras(k) : k \in Dims} \cup {SplitCameras(k) : k \in Dims}
    \cup {SiblingCells(k) : k \in Dims} \cup {SplitCells(k) : k \in Dims}
    \cup {ModeCameras(k) : k \in Dims}
    \cup {SkippedDoc}
    \cup {ModelDoc(ty, 2, rdepth) : ty \in TreeTypes, rdepth \in {-1, 0}}
    \cup {ModelDoc("cube", 2, 3)}

\* the first n elements of such an array
RECURSIVE Numbers(_, _, _)
Numbers(n, base, gaps) ==
    IF n = 0 THEN <<>>
    ELSE Append(Numbers(n - 1, base, gaps),
                IF n \in gaps THEN JNull ELSE JNumber((base + n) * Unit))

\* an array of k numbers base + 1, base + 2, ..., with null at the places gaps
NumberArray(k, base, gaps) == JArray(Numbers(k, base, gaps))

\* {"polar": ..., "camera": [...]}: two cameras of dimension k among others
CameraValue(k, polar) ==
    JObject(<< <<"polar", JBool(polar)>>,
               <<"camera",
                 JArray(<< NumberArray(k, 10, {}),
                           NumberArray(MaxDim + 1, 20, {}),
                           NumberArray(k, 30, {k}),
                           NumberArray(1, 40, {}),
                           JNumber(Unit) >>)>> >>)

\* {"camera": [...]}: the cameras of CameraValue(k, polar) in a document
\* that has no member polar
CameraValueNoMode(k) == JObject(<<CameraValue(k, FALSE).o[2]>>)

\* {"transformation": [...]}: two transformations of dimension k
CellValue(k) ==
    JObject(<< <<"transformation",
                 JArray(<< NumberArray((k + 1) * (k + 1), 50, {}),
                           NumberArray((k + 1) * (k + 1), 100, {1, 2}) >>)>>
            >>)

SkippedValue ==
    JObject(<< <<"camera",
                 JArray(<< NumberArray(MaxDim + 1, 20, {}),
                           NumberArray(1, 40, {}) >>)>>,
               <<"transformation",
                 JArray(<< NumberArray((MaxDim + 2) * (MaxDim + 2), 150, {}),
                           NumberArray(5, 190, {}) >>)>> >>)

\* {"model": ..., "depth": ... [, "renderDepth": ...]}
ModelValue(type, depth, rdepth) ==
    JObject(<< <<"model", JString(Word(type))>>,
               <<"depth", JNumber(depth * Unit)>> >>
            \o (IF rdepth < 0 THEN <<>>
                ELSE << <<"renderDepth", JNumber(rdepth * Unit)>> >>))

\* the fix point's colour members, in the order it decodes them
ColourKeys == <<"background", "wireframe", "surface">>

\* the shapes of a colour's value: five or six elements that are numbers,
\* four elements, five with null at index 1, at index 4 or at index 0, and
\* a number in place of the array
ColourShapes == {"five", "six", "four", "gap1", "gap4", "head", "scalar"}

ColourArray(shape, base) ==
    CASE shape = "five" -> NumberArray(5, base, {})
      [] shape = "six"  -> NumberArray(6, base, {})
      [] shape = "four" -> NumberArray(4, base, {})
      [] shape = "gap1" -> NumberArray(5, base, {2})
      [] shape = "gap4" -> NumberArray(5, base, {5})
      [] shape = "head" -> NumberArray(5, base, {1})
      [] shape = "scalar" -> JNumber(base * Unit)

\* the m-th member of the object ColourValue(n, shape)
ColourMember(m, n, shape) ==
    <<ColourKeys[m],
      ColourArray(CASE m = n -> shape
                    [] m = (n % 3) + 1 -> "five"
                    [] OTHER -> "gap4",
                  10 * m)>>

\* {"background": ..., "wireframe": ..., "surface": ...}: the n-th colour
\* has the shape given, the one after it is five numbers, the one before it
\* has null at index 4
ColourValue(n, shape) ==
    JObject(<< ColourMember(1, n, shape), ColourMember(2, n, shape),
               ColourMember(3, n, shape) >>)

\* value trees whose root is not an object
RootValues ==
    {JNull, JNumber(Unit), JString(Word("cube")),
     JArray(<<NumberArray(2, 10, {})>>)}

\* the value trees handed to parse
TreeValues ==
    {CameraValue(k, polar) : k \in Dims, polar \in BOOLEAN}
    \cup {CameraValueNoMode(k) : k \in Dims}
    \cup {CellValue(k) : k \in Dims}
    \cup {SkippedValue}
    \cup {ColourValue(n, shape) : n \in 1..3, shape \in ColourShapes}
    \cup RootValues

\* the value trees handed to parseModel
ModelValues ==
    {ModelValue(ty, 2, rdepth) : ty \in TreeTypes, rdepth \in {-1, 0}}
    \cup RootValues

TreeRequests == {Request(Word("cartesian"), Word("cube"), 2, 2)}

InitTree ==
    /\ src = NewState
    /\ dst \in {ClientState(1, polar) : polar \in BOOLEAN}
    /\ heap = <<>>
    /\ parser = Parser(FALSE, <<>>)
    /\ call = NoCall
    /\ pc = "idle"
    /\ tmp = 0
    /\ gl = GLIdle
    /\ svg = <<>>
    /\ defaults = NoDefaults
    /\ json = JNull

\* a client binds a model to the state that is decoded into, before it
\* decodes
BindTarget(req) ==
    /\ pc = "idle"
    /\ call.n = 0
    /\ Len(heap) < MaxRenderers
    /\ dst.model = 0
    /\ \E w \in {With(dst, heap, req, "dst")} :
           /\ dst' = w.s
           /\ heap' = w.heap
           /\ call' = Call("with", w.ret, FALSE, 0, req, dst, heap, call.n)
    /\ UNCHANGED <<src, parser, pc, tmp, gl, svg, defaults, json>>

\* xml::parser::parser(data, filename) over the document doc, failed being
\* the library call that fails; a behaviour decodes from one document, or
\* from value trees
Construct(doc, failed) ==
    /\ pc = "idle"
    /\ call.n = 0
    /\ call.op # "parser"
    /\ parser' = ParserNew(doc, failed)
    /\ call' = Call("parser", parser'.valid, FALSE, 0, NoRequest, dst, heap,
                    call.n)
    /\ UNCHANGED <<src, dst, heap, pc, tmp, gl, svg, defaults, json>>

\* parse(dst, parser) with a parser that has an XPath context, or that is
\* not valid
TreeDecode ==
    /\ pc = "idle"
    /\ parser.valid => parser.xpathContext = "live"
    /\ Decode

\* parseModel<Q,MaxDim,updateModel>(dst, parser), likewise
TreeDecodeModel ==
    /\ pc = "idle"
    /\ parser.valid => parser.xpathContext = "live"
    /\ DecodeModel

\* parse or parseModel with a valid parser whose XPath context is 0: lookup
\* returns 0 (line 411-415) and line 348 reads through it
DecodeNullContext ==
    /\ pc = "idle"
    /\ call.n < MaxCalls
    /\ parser.valid
    /\ parser.xpathContext = "null"
    /\ pc' = "crashed"
    /\ call' = Call("parse", FALSE, FALSE, 0, NoRequest, dst, heap,
                    call.n + 1)
    /\ UNCHANGED <<src, dst, heap, parser, tmp, gl, svg, defaults, json>>

\* parse(dst, value)
DecodeValue(val) ==
    /\ pc = "idle"
    /\ call.n < MaxCalls
    /\ parser = Parser(FALSE, <<>>)
    /\ \E r \in {JsonParse(dst, val)} :
           /\ dst' = r.s
           /\ call' = Call("parse(value)", r.ret, FALSE, 0, NoRequest, dst,
                           heap, call.n + 1)
    /\ json' = val
    /\ UNCHANGED <<src, heap, parser, pc, tmp, gl, svg, defaults>>

\* parseModel<Q,MaxDim,updateModel>(dst, value)
DecodeValueModel(val) ==
    /\ pc = "idle"
    /\ call.n < MaxCalls
    /\ parser = Parser(FALSE, <<>>)
    /\ Len(heap) < MaxRenderers
    /\ \E r \in {JsonParseModel(dst, heap, val, "dst")} :
           /\ dst' = r.s
           /\ heap' = r.heap
           /\ call' = Call("parseModel(value)", r.ret, FALSE, 0, r.req, dst,
                           heap, call.n + 1)
    /\ json' = val
    /\ UNCHANGED <<src, parser, pc, tmp, gl, svg, defaults>>

NextTree ==
    \/ \E req \in TreeRequests : BindTarget(req)
    \/ \E doc \in TreeDocs : Construct(doc, "none")
    \/ \E failed \in LibraryCalls : Construct(SkippedDoc, failed)
    \/ TreeDecode
    \/ TreeDecodeModel
    \/ DecodeNullContext
    \/ \E val \in TreeValues : DecodeValue(val)
    \/ \E val \in ModelValues : DecodeValueModel(val)

SpecTree == InitTree /\ [][NextTree]_vars

---------------------------------------------------------------------------
(* The live settings of the iOS frontend: the specification SpecSettings *)

\* the model names the settings hold; "nil" is no model name
SettingsModels ==
    {"nil", "plane", "moebius-strip", "klein-bagel", "sphere", "cube"}

\* the integers the settings hold for depth and renderDepth
StoredDepths == (-1)..(MaxDim + 2)

InitSettings ==
    /\ src = NewState
    /\ dst = NewState
    /\ heap = <<>>
    /\ parser = Parser(FALSE, <<>>)
    /\ call = NoCall
    /\ pc = "idle"
    /\ tmp = NoDefaults
    /\ gl = GLIdle
    /\ svg = <<>>
    /\ defaults = NoDefaults
    /\ json = JNull

\* the settings are written before the frontend first updates its model
StoreDefaults(model, depth, renderDepth) ==
    /\ call.n = 0
    /\ defaults' = Defaults(model, depth, renderDepth)
    /\ call' = Call("store", TRUE, FALSE, 0, NoRequest, dst, heap, call.n)
    /\ UNCHANGED <<src, dst, heap, parser, pc, tmp, gl, svg, json>>

\* [iOSAppDelegate updateModel]
UpdateModelStep ==
    /\ call.n < MaxCalls
    /\ Len(heap) < MaxRenderers
    /\ \E u \in {UpdateModel(dst, heap, defaults)} :
           /\ defaults' = u.defaults
           /\ dst' = u.s
           /\ heap' = u.heap
           /\ call' = Call("updateModel", u.ret, FALSE, 0, u.req, dst, heap,
                           call.n + 1)
    /\ tmp' = defaults
    /\ UNCHANGED <<src, parser, pc, gl, svg, json>>

\* the values the settings pane stores under a key
SettingsValues(key) ==
    IF key = "model" THEN SettingsModels \ {"nil"} ELSE StoredDepths

\* the user changes one setting and reconfigureWithIndex: is called for it
Reconfigure(key, v) ==
    /\ call.n < MaxCalls
    /\ Len(heap) < MaxRenderers
    /\ \E r \in {ReconfigureWithIndex(dst, heap, SetDefault(defaults, key, v),
                                       key)} :
           /\ defaults' = r.defaults
           /\ dst' = r.s
           /\ heap' = r.heap
           /\ tmp' = [found |-> r.found, adjusted |-> r.adjusted]
           /\ call' = Call(key, r.ret, FALSE, 0, r.req, dst, heap, call.n + 1)
    /\ UNCHANGED <<src, parser, pc, gl, svg, json>>

NextSettings ==
    \/ \E model \in SettingsModels, depth \in StoredDepths,
          renderDepth \in StoredDepths :
          StoreDefaults(model, depth, renderDepth)
    \/ UpdateModelStep
    \/ \E key \in SettingsKeys : \E v \in SettingsValues(key) :
          Reconfigure(key, v)

SpecSettings == InitSettings /\ [][NextSettings]_vars

---------------------------------------------------------------------------
(* Cameras and refresh: the specification SpecRefresh *)

\* the schemes a client writes a camera after
CameraSchemes == {1, 2}

InitRefresh ==
    /\ src = NewState
    /\ dst \in {ClientState(p, polar) : p \in {0, 1}, polar \in BOOLEAN}
    /\ heap = <<>>
    /\ parser = Parser(FALSE, <<>>)
    /\ call = NoCall
    /\ pc = "idle"
    /\ tmp = 0
    /\ gl = GLIdle
    /\ svg = <<>>
    /\ defaults = NoDefaults
    /\ json = JNull

\* a client assigns the public member polarCoordinates
SetMode(polar) ==
    /\ call.n < MaxCalls
    /\ dst.polarCoordinates # polar
    /\ dst' = [dst EXCEPT !.polarCoordinates = polar]
    /\ call' = Call("mode", polar, FALSE, 0, NoRequest, dst, heap, call.n)
    /\ UNCHANGED <<src, heap, parser, pc, tmp, gl, svg, defaults, json>>

\* a client assigns the cameras of dimension k, polar and cartesian
MoveCamera(k, p) ==
    /\ call.n < MaxCalls
    /\ dst' = [dst EXCEPT !.fromp[k] = ClientState(p, TRUE).fromp[k],
                          !.from[k] = ClientState(p, TRUE).from[k]]
    /\ dst' # dst
    /\ call' = Call("camera", TRUE, FALSE, k, NoRequest, dst, heap, call.n)
    /\ UNCHANGED <<src, heap, parser, pc, tmp, gl, svg, defaults, json>>

\* dst.state<Q,d>::updateMatrix()
Refresh(d) ==
    /\ call.n < MaxCalls
    /\ dst' = UpdateMatrixOf(dst, d)
    /\ call' = Call("updateMatrix", TRUE, FALSE, d, NoRequest, dst, heap,
                    call.n + 1)
    /\ UNCHANGED <<src, heap, parser, pc, tmp, gl, svg, defaults, json>>

NextRefresh ==
    \/ \E polar \in BOOLEAN : SetMode(polar)
    \/ \E k \in 3..MaxDim, p \in CameraSchemes : MoveCamera(k, p)
    \/ \E d \in 3..MaxDim : Refresh(d)

SpecRefresh == InitRefresh /\ [][NextRefresh]_vars

---------------------------------------------------------------------------
(* Axis names of the camera loops: the specification SpecAxis              *)
(* The loops over i of state<Q,d>::metadata and parse<Q,d> run to d - 1,   *)
(* for any d a client instantiates; here the body of either loop is taken  *)
(* for one i at a time.                                                    *)

InitAxis ==
    /\ src = NewState
    /\ dst = NewState
    /\ heap = <<>>
    /\ parser = Parser(FALSE, <<>>)
    /\ call = NoCall
    /\ pc = "idle"
    /\ tmp = ""
    /\ gl = GLIdle
    /\ svg = <<>>
    /\ defaults = NoDefaults
    /\ json = JNull

\* lines 1180-1187 for the axis i: the attribute name written to the stream
WriteAxis(i) ==
    /\ svg' = <<Op("attribute", <<EncAxisName(i)>>)>>
    /\ call' = Call("metadata", TRUE, FALSE, i, NoRequest, dst, heap, call.n)
    /\ UNCHANGED <<src, dst, heap, parser, pc, tmp, gl, defaults, json>>

\* lines 469-480 for the axis i: the attribute name handed to evaluate
ReadAxis(i) ==
    /\ tmp' = DecAxisName(i)
    /\ call' = Call("parse", TRUE, FALSE, i, NoRequest, dst, heap, call.n)
    /\ UNCHANGED <<src, dst, heap, parser, pc, gl, svg, defaults, json>>

NextAxis ==
    \/ \E i \in 0..MaxAxis : WriteAxis(i)
    \/ \E i \in 0..MaxAxis : ReadAxis(i)

SpecAxis == InitAxis /\ [][NextAxis]_vars

---------------------------------------------------------------------------
(* Properties of the dispatch *)

\* the renderers constructed for owner that have not been destroyed
LiveOwned(owner) ==
    {i \in 1..Len(heap) : heap[i].live /\ heap[i].owner = owner}

\* C1: in every state of every sequence of dispatches on one state chain, at
\* most one renderer owned by the chain is live and its model pointer is null
\* or refers to a live renderer; once apply has released, the previous
\* renderer is destroyed and the pointer null until the new renderer (the only
\* live one) is installed; a completed apply has returned true.
C1_Replacement ==
    /\ Cardinality(LiveOwned("dst")) <= 1
    /\ dst.model # 0 => dst.model \in LiveOwned("dst")
    /\ pc = "construct" => dst.model = 0 /\ LiveOwned("dst") = {}
    /\ pc = "install" => dst.model = 0 /\ LiveOwned("dst") = {tmp}
    /\ (pc = "idle" /\ call.op = "apply") =>
          /\ call.ret = TRUE
          /\ dst.model = Len(heap)
          /\ call.pre.model # 0 => ~heap[call.pre.model].live

\* an apply has completed on a state chain that held a renderer before
C1_Witness ==
    /\ pc = "idle"
    /\ call.op = "apply"
    /\ call.pre.model # 0
    /\ dst.model # call.pre.model

\* C2 as stated: after a dispatch that found no match, false has been returned
\* and the state chain and its renderer are as before.
C2_Original ==
    call.op = "pass" =>
        /\ call.ret = FALSE
        /\ dst = call.pre
        /\ heap = call.preHeap

\* C2, amended: after a dispatch that found no match, the state chain and
\* its renderer are as before, and the value returned is true exactly when a
\* renderer was already bound.
C2_Amended ==
    call.op = "pass" =>
        /\ call.ret = (call.pre.model # 0)
        /\ dst = call.pre
        /\ heap = call.preHeap

\* a dispatch found no match on a state chain that holds a live renderer
C2_Witness ==
    /\ call.op = "pass"
    /\ call.pre.model # 0
    /\ heap[dst.model].live
    /\ call.ret = TRUE

---------------------------------------------------------------------------
(* Properties of the raster frame *)

\* where in the calls ops the draw call name is
DrawIndex(ops, name) == CHOOSE n \in 1..Len(ops) : ops[n].op = name

\* the depth mask in force when the n-th of the calls ops is made: the
\* argument of the last glDepthMask before it
MaskAt(ops, n) ==
    ops[CHOOSE m \in 1..(n - 1) :
           /\ ops[m].op = "glDepthMask"
           /\ \A o \in (m + 1)..(n - 1) : ops[o].op # "glDepthMask"].args[1]

\* C4 as stated: in every frame, depth writes are enabled while the
\* wireframe is drawn, and while the solid is drawn they are disabled exactly
\* when the surface alpha is below 1.
C4_Original ==
    call.op = "frame" =>
        /\ MaskAt(gl.ops, DrawIndex(gl.ops, "renderWireframe")) = TRUE
        /\ MaskAt(gl.ops, DrawIndex(gl.ops, "renderSolid"))
              = (dst.surface.alpha >= Unit)

\* a frame of a translucent surface whose solid pass wrote depth
C4_Witness ==
    /\ call.op = "frame"
    /\ dst.surface.alpha < Unit
    /\ MaskAt(gl.ops, DrawIndex(gl.ops, "renderSolid")) = TRUE

\* the names of the calls ops, without those that configure depth testing,
\* the view and the depth mask
ListedCalls(ops) ==
    SelectSeq([n \in 1..Len(ops) |-> ops[n].op],
              LAMBDA name : name \notin {"glEnable", "gluLookAt",
                                         "glDepthMask", "updateMatrix",
                                         "output.str"})

Components(c) == <<c.red, c.green, c.blue, c.alpha>>

\* C5: every frame clears to the background, pushes the transform, sets the
\* wireframe colour, draws the wireframe, sets the material, sets the surface
\* colour, draws the solid, pops the transform and presents, in this order
\* with one push and one pop; in every state the depth of the transform
\* stack is the one the first frame started with.
C5_Ordering ==
    /\ gl.stack = gl.stack0
    /\ call.op = "frame" =>
          /\ ListedCalls(gl.ops)
                = << "glClearColor", "glClear", "glPushMatrix", "glColor4d",
                     "renderWireframe", "glMaterialfv", "glMaterialfv",
                     "glMaterialfv", "glColor4d", "renderSolid",
                     "glPopMatrix", "glFlush", "glutSwapBuffers" >>
          /\ gl.ops[DrawIndex(gl.ops, "glClearColor")].args
                = Components(dst.background)
          /\ gl.ops[DrawIndex(gl.ops, "renderWireframe") - 1]
                = Op("glColor4d", Components(dst.wireframe))
          /\ gl.ops[DrawIndex(gl.ops, "renderSolid") - 1]
                = Op("glColor4d", Components(dst.surface))

\* a second or later frame, on a transform stack that was not empty, with
\* the three-dimensional view compiled in
C5_Witness ==
    /\ call.op = "frame"
    /\ gl.frames >= 2
    /\ gl.stack0 > 0
    /\ gl.gl3d
    /\ \E n \in 1..Len(gl.ops) : gl.ops[n].op = "gluLookAt"

---------------------------------------------------------------------------
(* Properties of encoding and decoding *)

\* the state chain after every attribute of ScalarDoc has been applied to s
ScalarApplied(s) ==
    [s EXCEPT !.parameter.precision = 8 * Unit,
              !.parameter.radius = 2 * Unit,
              !.polarCoordinates = FALSE,
              !.background = RGBA(1000000, 2000000, 3000000, Unit),
              !.wireframe = RGBA(4000000, 5000000, 6000000, 7000000),
              !.surface = RGBA(8000000, 9000000, 1500000, 2500000),
              !.parameter.iterations = 7,
              !.parameter.seed = 11,
              !.parameter.functions = 6,
              !.parameter.preRotate = FALSE,
              !.parameter.postRotate = TRUE,
              !.parameter.flameCoefficients = 9]

\* s with the field the attribute bad sets as it is in pre
KeepPrior(s, pre, bad) ==
    CASE bad = "options/radius" ->
            [s EXCEPT !.parameter.radius = pre.parameter.radius]
      [] bad = "flame/coefficients" ->
            [s EXCEPT !.parameter.flameCoefficients =
                          pre.parameter.flameCoefficients]
      [] OTHER -> s

\* C3 as stated: decoding a document in which exactly one numeric attribute
\* holds "abc" completes, leaves that attribute's field as it was and applies
\* every other attribute of the document.
C3_Original ==
    \A bad \in BadAttrs \ {"none"} :
        (call.op = "parse" /\ parser.doc = ScalarDoc(bad)) =>
            /\ ~call.thrown
            /\ dst = KeepPrior(ScalarApplied(call.pre), call.pre, bad)

\* a decode of the document with radius="abc" has ended by an exception
\* with the colours of the document not applied
C3_Witness ==
    /\ call.op = "parse"
    /\ parser.doc = ScalarDoc("options/radius")
    /\ call.thrown
    /\ dst.background = call.pre.background
    /\ dst.background # ScalarApplied(call.pre).background

\* a is b within the relative tolerance 1e-5 that six significant digits give
Within(a, b) == Abs(a - b) <= Abs(b) \div 100000

\* the last call decoded the description of src
RoundTrip == call.op = "parse" /\ parser.doc = Metadata(src, heap)

\* C6: decoding the description of a state chain into another one returns
\* true and reproduces the camera mode, for every dimension from 3 up the
\* camera the mode makes authoritative (polar radius and angles, or cartesian
\* coordinates), and the twelve colour components, numbers within tolerance.
C6_CameraColourRoundTrip ==
    RoundTrip =>
        /\ call.ret /\ ~call.thrown
        /\ dst.polarCoordinates = src.polarCoordinates
        /\ \A k \in 3..MaxDim : \A i \in 0..(k - 1) :
              IF src.polarCoordinates
              THEN Within(dst.fromp[k][i], src.fromp[k][i])
              ELSE Within(dst.from[k][i], src.from[k][i])
        /\ \A n \in 1..4 :
              /\ Within(Components(dst.background)[n],
                        Components(src.background)[n])
              /\ Within(Components(dst.wireframe)[n],
                        Components(src.wireframe)[n])
              /\ Within(Components(dst.surface)[n],
                        Components(src.surface)[n])

\* a description whose numbers have seven significant digits was decoded
\* into a state chain with another camera mode, other cameras and colours
C6_Witness ==
    /\ RoundTrip
    /\ call.pre.polarCoordinates # src.polarCoordinates
    /\ call.pre.fromp # src.fromp
    /\ call.pre.from # src.from
    /\ call.pre.surface # src.surface
    /\ dst.surface # src.surface
    /\ dst.surface # call.pre.surface

\* C7 as stated: decoding the description of a state chain reproduces its
\* radius, its precision, its export multiplier and its id prefix.
C7_Original ==
    RoundTrip =>
        /\ Within(dst.parameter.polarRadius, src.parameter.polarRadius)
        /\ Within(dst.parameter.polarPrecision, src.parameter.polarPrecision)
        /\ Within(dst.exportMultiplier, src.exportMultiplier)
        /\ dst.idPrefix = src.idPrefix

\* a description was decoded and the export multiplier and the id prefix
\* of the state chain decoded into are still what they were, not what was
\* described
C7_Witness ==
    /\ RoundTrip
    /\ dst.exportMultiplier = call.pre.exportMultiplier
    /\ ~Within(dst.exportMultiplier, src.exportMultiplier)
    /\ dst.idPrefix = call.pre.idPrefix
    /\ dst.idPrefix # src.idPrefix

\* C8 as stated: decoding the description of a state chain reproduces every
\* cell of the transformation matrix of every dimension.
C8_Original ==
    RoundTrip =>
        \A k \in Dims : \A i \in 0..k : \A j \in 0..k :
            Within(dst.transformation[k][i][j], src.transformation[k][i][j])

\* a description was decoded into a state chain with other matrices, which
\* are still what they were
C8_Witness ==
    /\ RoundTrip
    /\ call.pre.transformation # src.transformation
    /\ dst.transformation = call.pre.transformation
    /\ \E k \in Dims : ~Within(dst.transformation[k][0][0],
                               src.transformation[k][0][0])

\* the last call decoded the model out of the description of src, which has
\* a renderer bound
ModelRoundTrip ==
    /\ call.op = "parseModel"
    /\ src.model # 0
    /\ parser.doc = Metadata(src, heap)

\* C9: the model declaration in the description of a state chain with a bound
\* renderer is decoded into a dispatch request with the renderer's id as
\* type, its depth as depth and its render depth as render depth.
C9_ModelRoundTrip ==
    ModelRoundTrip =>
        /\ ~call.thrown
        /\ call.req.type = Word(heap[src.model].id)
        /\ call.req.depth = heap[src.model].depth
        /\ call.req.rdepth = heap[src.model].renderDepth

\* the model of a description was decoded whose render depth is not its depth
C9_Witness ==
    /\ ModelRoundTrip
    /\ heap[src.model].renderDepth # heap[src.model].depth
    /\ call.req.rdepth = heap[src.model].renderDepth
    /\ call.ret

\* C10: decoding a transformation element with depth k and matrix "identity"
\* leaves dimension k's matrix the identity and the matrix of every other
\* dimension as it was.
C10_IdentityReset ==
    \A k \in Dims :
        (call.op = "parse" /\ parser.doc = IdentityDoc(k)) =>
            /\ call.ret
            /\ dst.transformation[k] = IdentityMatrix(k)
            /\ \A j \in Dims \ {k} :
                  dst.transformation[j] = call.pre.transformation[j]

\* the identity element of the highest dimension was decoded into a state
\* chain none of whose matrices was the identity
C10_Witness ==
    /\ call.op = "parse"
    /\ parser.doc = IdentityDoc(MaxDim)
    /\ \A k \in Dims : call.pre.transformation[k] # IdentityMatrix(k)
    /\ dst.transformation[MaxDim] = IdentityMatrix(MaxDim)

---------------------------------------------------------------------------
(* Properties of the parser and of decoding documents and value trees *)

\* C11: a constructed parser is valid only if the document was read, the
\* XPath context was created and both namespaces were registered; when one
\* of these failed it is not valid, and it never holds a document or
\* context that has been freed.
C11_Original ==
    /\ parser.valid <=> parser.failed = "none"
    /\ parser.document # "freed"
    /\ parser.xpathContext # "freed"

\* a parser whose namespace registration failed and that says it is valid
C11_Witness ==
    /\ call.op = "parser"
    /\ parser.failed = "xmlXPathRegisterNs(svg)"
    /\ parser.valid
    /\ parser.document = "null"
    /\ parser.xpathContext = "null"

\* the last call returned false and left the state chain and every
\* renderer as they were
Rejected ==
    /\ ~call.ret
    /\ ~call.thrown
    /\ dst = call.pre
    /\ heap = call.preHeap

\* C12: parse and parseModel called with a parser that is not valid, or
\* with a value tree whose root is not an object, return false and change
\* no field of the state chain and no renderer.
C12_RejectedUnchanged ==
    /\ (call.op \in {"parse", "parseModel"} /\ ~parser.valid) => Rejected
    /\ (call.op \in {"parse(value)", "parseModel(value)"}
            /\ json.type # "object") => Rejected

\* parseModel over a parser that could not read its document, called on a
\* state with a bound renderer
C12_Witness ==
    /\ call.op = "parseModel"
    /\ ~parser.valid
    /\ parser.failed = "xmlReadMemory"
    /\ dst.model # 0
    /\ heap[dst.model].live

\* the render depth the defaulting rule gives a request
DefaultedRenderDepth(req) ==
    req.depth
    + (IF req.type \in {Word("sphere"), Word("moebius-strip"),
                        Word("klein-bagel")}
       THEN 1 ELSE 0)

\* the model element the last parseModel read leaves the render depth
\* unspecified, or gives it as zero
ElementOmitsRenderDepth ==
    /\ call.op = "parseModel"
    /\ call.req # NoRequest
    /\ parser.node # 0
    /\ \/ ~HasAttr(parser.doc[parser.node], "render-depth")
       \/ Attr(parser.doc[parser.node], "render-depth") = Digits(0)

\* likewise for the value tree of the last parseModel
ValueOmitsRenderDepth ==
    /\ call.op = "parseModel(value)"
    /\ call.req # NoRequest
    /\ \/ Get(json, "renderDepth").type # "number"
       \/ Get(json, "renderDepth").n = 0

\* C13: when the document or value tree leaves the render depth
\* unspecified or gives zero, parseModel hands depth + 1 to with for the
\* types sphere, moebius-strip and klein-bagel, and depth for every other
\* type.
C13_Original ==
    (ElementOmitsRenderDepth \/ ValueOmitsRenderDepth)
        => call.req.rdepth = DefaultedRenderDepth(call.req)

\* a sphere without a render-depth attribute handed on with render depth =
\* depth
C13_Witness ==
    /\ ElementOmitsRenderDepth
    /\ ~HasAttr(parser.doc[parser.node], "render-depth")
    /\ call.req.type = Word("sphere")
    /\ call.req.rdepth = call.req.depth

\* the camera arrays of k components of the value tree val
CameraArrays(val, k) ==
    IF Get(val, "camera").type # "array" THEN {}
    ELSE {n \in 1..Len(Get(val, "camera").a) :
             /\ Get(val, "camera").a[n].type = "array"
             /\ Size(Get(val, "camera").a[n]) = k}

\* the transformation arrays of (k+1)^2 cells of the value tree val
CellArrays(val, k) ==
    IF Get(val, "transformation").type # "array" THEN {}
    ELSE {n \in 1..Len(Get(val, "transformation").a) :
             /\ Get(val, "transformation").a[n].type = "array"
             /\ Size(Get(val, "transformation").a[n]) = (k + 1) * (k + 1)}

CameraChanged(k) ==
    dst.from[k] # call.pre.from[k] \/ dst.fromp[k] # call.pre.fromp[k]

MatrixChanged(k) == dst.transformation[k] # call.pre.transformation[k]

\* C18: a decode changes the camera of dimension k only if the input holds
\* a camera fragment of exactly k components, and the matrix of dimension k
\* only if it holds a transformation fragment for k (of (k+1)^2 cells, or
\* the identity of depth k); fragments of sizes that belong to no dimension
\* change nothing.
C18_DimensionScoping ==
    /\ call.op = "parse" =>
          /\ \A k \in Dims :
                /\ CameraChanged(k) => Cameras(parser.doc, k) # {}
                /\ MatrixChanged(k) =>
                      \/ CellTransformations(parser.doc, k) # {}
                      \/ DepthTransformations(parser.doc, k) # {}
          /\ parser.doc = SkippedDoc => dst = call.pre
    /\ call.op = "parse(value)" =>
          /\ \A k \in Dims :
                /\ CameraChanged(k) => CameraArrays(json, k) # {}
                /\ MatrixChanged(k) => CellArrays(json, k) # {}
          /\ json = SkippedValue => dst = call.pre

\* a value tree with cameras of k, of MaxDim + 1 and of 1 components has
\* changed the camera of dimension k and no other
C18_Witness ==
    /\ call.op = "parse(value)"
    /\ \E k \in Dims :
          /\ CameraArrays(json, k) # {}
          /\ CameraArrays(json, MaxDim + 1) # {}
          /\ CameraChanged(k)
          /\ \A o \in Dims \ {k} : ~CameraChanged(o)
          /\ \A o \in Dims : ~MatrixChanged(o)

MaxOf(set) == CHOOSE n \in set : \A o \in set : o <= n

\* the cameras of dimension k of doc that give the axis i
AxisGivers(doc, k, i) ==
    {n \in Cameras(doc, k) :
        /\ HasAttr(doc[n], DecAxisName(i))
        /\ ~HasAttr(doc[n], "theta-" \o ToString(i))
        /\ i = 0 => ~HasAttr(doc[n], "radius")}

\* the transformations of dimension k of doc that give the cell (i, j)
CellGivers(doc, k, i, j) ==
    {n \in CellTransformations(doc, k) :
        HasAttr(doc[n], "e" \o ToString(i) \o "-" \o ToString(j))}

\* the camera arrays of dimension k of val that give the component i
ComponentGivers(val, k, i) ==
    {n \in CameraArrays(val, k) :
        At(Get(val, "camera").a[n], i).type = "number"}

\* the transformation arrays of dimension k of val that give the cell c
CellNumberGivers(val, k, c) ==
    {n \in CellArrays(val, k) :
        At(Get(val, "transformation").a[n], c).type = "number"}

\* after a decode of a document every axis and cell has the value of the
\* last element in document order that gives it
LastElementWins ==
    \A k \in Dims :
       /\ \A i \in 0..(k - 1) :
             AxisGivers(parser.doc, k, i) # {} =>
                dst.from[k][i]
                  = stold(Attr(parser.doc[MaxOf(AxisGivers(parser.doc, k, i))],
                               DecAxisName(i))).v
       /\ \A i, j \in 0..k :
             CellGivers(parser.doc, k, i, j) # {} =>
                dst.transformation[k][i][j]
                  = stold(Attr(
                        parser.doc[MaxOf(CellGivers(parser.doc, k, i, j))],
                        "e" \o ToString(i) \o "-" \o ToString(j))).v

\* likewise after a decode of a value tree
LastArrayWins ==
    \A k \in Dims :
       /\ \A i \in 0..(k - 1) :
             ComponentGivers(json, k, i) # {} =>
                (IF AsBool(Get(json, "polar")) THEN dst.fromp ELSE dst.from)
                    [k][i]
                  = At(Get(json, "camera").a[
                          MaxOf(ComponentGivers(json, k, i))], i).n
       /\ \A c \in 0..((k + 1) * (k + 1) - 1) :
             CellNumberGivers(json, k, c) # {} =>
                dst.transformation[k][c \div (k + 1)][c % (k + 1)]
                  = At(Get(json, "transformation").a[
                          MaxOf(CellNumberGivers(json, k, c))], c).n

\* C19: when the input holds several camera or explicit-cell transformation
\* elements of the same shape for dimension k, each is visited in document
\* order, so that every coordinate and cell ends with the value of the last
\* element that specifies it.
C19_Original ==
    /\ (call.op = "parse" /\ parser.valid /\ ~call.thrown) => LastElementWins
    /\ (call.op = "parse(value)" /\ json.type = "object") => LastArrayWins

\* two cameras of one dimension that are children of different elements:
\* the decode returned true and visited neither
C19_Witness ==
    /\ call.op = "parse"
    /\ call.ret
    /\ \E k \in Dims :
          /\ Cardinality(Cameras(parser.doc, k)) = 2
          /\ Cardinality(FirstOfParent(parser.doc, Cameras(parser.doc, k))) = 2
          /\ \A i \in 0..(k - 1) : AxisGivers(parser.doc, k, i) # {}
          /\ ~CameraChanged(k)

---------------------------------------------------------------------------
(* Properties of the live settings *)

\* the last call was updateModel and it handed a request to with
Dispatched == call.op = "updateModel" /\ call.req # NoRequest

\* C14: whenever updateModel runs with the type plane, moebius-strip or
\* klein-bagel, the depth it leaves in the settings and hands to with is 2,
\* whatever depth and render depth it found.
C14_FlatDepth ==
    (Dispatched /\ defaults.model \in FlatTypes) =>
        /\ defaults.depth = 2
        /\ call.req.depth = 2
        /\ call.req.type = Word(defaults.model)

\* a flat type found with a depth other than 2
C14_Witness ==
    /\ Dispatched
    /\ defaults.model = "klein-bagel"
    /\ tmp.depth > 2
    /\ call.req.depth = 2

\* C15: whenever updateModel runs with the type sphere, the render depth it
\* hands to with is greater than the depth it hands to with, whatever depth
\* and render depth it found, inside [2, MAXDEPTH] or not.
C15_SphereDepth ==
    (Dispatched /\ defaults.model = "sphere") =>
        /\ call.req.rdepth > call.req.depth
        /\ call.req.type = Word("sphere")

\* a sphere found with depth above MAXDEPTH and render depth below the depth
C15_Witness ==
    /\ Dispatched
    /\ defaults.model = "sphere"
    /\ tmp.depth > MAXDEPTH
    /\ tmp.renderDepth <= tmp.depth
    /\ call.req.rdepth > call.req.depth

\* C16: whenever updateModel runs with a type other than plane,
\* moebius-strip, klein-bagel and sphere, the render depth it hands to with
\* is at least the depth it hands to with.
C16_GenericDepth ==
    (Dispatched /\ defaults.model \notin FlatTypes \cup {"sphere"}) =>
        /\ call.req.rdepth >= call.req.depth
        /\ call.req.type = Word(defaults.model)

\* a cube found with a render depth below its depth
C16_Witness ==
    /\ Dispatched
    /\ defaults.model = "cube"
    /\ tmp.renderDepth \in 3..MAXDEPTH
    /\ tmp.renderDepth < tmp.depth
    /\ tmp.depth \in 3..MAXDEPTH
    /\ call.req.rdepth = call.req.depth

\* C17: after updateModel with a model name the settings hold a depth in
\* 2..MAXDEPTH and a render depth in 3..MAXDEPTH, and these are what with
\* was handed; updateModel without a model name changes nothing and does
\* not call with.
C17_DepthBounds ==
    call.op = "updateModel" =>
        IF tmp.model = "nil"
        THEN /\ defaults = tmp
             /\ dst = call.pre
             /\ heap = call.preHeap
             /\ call.req = NoRequest
        ELSE /\ defaults.depth \in 2..MAXDEPTH
             /\ defaults.renderDepth \in 3..MAXDEPTH
             /\ defaults.model = tmp.model
             /\ call.req = DefaultsRequest(defaults)

\* settings found with both depths above MAXDEPTH
C17_Witness ==
    /\ Dispatched
    /\ tmp.depth > MAXDEPTH
    /\ tmp.renderDepth > MAXDEPTH
    /\ defaults.depth = MAXDEPTH
    /\ defaults.renderDepth = MAXDEPTH

---------------------------------------------------------------------------
(* Refresh and frame output *)

\* the calls ops begin with the refresh and hold no other
RefreshFirst(ops) ==
    /\ ops # <<>>
    /\ ops[1].op = "updateMatrix"
    /\ \A n \in 2..Len(ops) : ops[n].op # "updateMatrix"

NoRefresh(ops) == \A n \in 1..Len(ops) : ops[n].op # "updateMatrix"

\* the frame that was asked to refresh left the refreshed state and refreshed
\* before anything else; the one that was not left every camera and
\* projection as it was
RefreshAsAsked(ops) ==
    IF call.ret
    THEN /\ RefreshFirst(ops)
         /\ Len(ops) > 1
         /\ dst = UpdateMatrix(call.pre)
    ELSE /\ NoRefresh(ops)
         /\ ops # <<>>
         /\ dst.from = call.pre.from
         /\ dst.fromp = call.pre.fromp
         /\ dst.projection = call.pre.projection

\* C20: a frame produced with update-matrix true refreshes before any of its
\* output, one produced with update-matrix false does not refresh and leaves
\* every camera and projection as it was; this holds for the vector and for
\* the raster renderer.
C20_RefreshBeforeOutput ==
    /\ call.op = "svg" => RefreshAsAsked(svg)
    /\ call.op = "frame" => RefreshAsAsked(gl.ops)

\* a vector frame whose refresh moved a camera and its projection
C20_Witness ==
    /\ call.op = "svg"
    /\ call.ret
    /\ svg[1].op = "updateMatrix"
    /\ \E k \in 3..MaxDim : /\ dst.from[k] # call.pre.from[k]
                             /\ dst.projection[k] = dst.from[k]
                             /\ dst.projection[k] # call.pre.projection[k]

---------------------------------------------------------------------------
(* Properties of the refresh *)

\* C21: after updateMatrix on the state<Q,d> of a chain, the projection of
\* every dimension k in 3..d has been recomputed from the camera of k; in
\* polar mode the cartesian camera of every such k is the conversion of the
\* polar camera of k, in cartesian mode the cartesian camera of every
\* dimension is as it was; the polar cameras and the mode flag are as they
\* were.
C21_Refresh ==
    call.op = "updateMatrix" =>
        /\ dst.fromp = call.pre.fromp
        /\ dst.polarCoordinates = call.pre.polarCoordinates
        /\ \A k \in 3..call.at :
              /\ dst.projection[k] = dst.from[k]
              /\ dst.polarCoordinates =>
                    dst.from[k] = PolarToCartesian(call.pre.fromp[k], k)
        /\ ~dst.polarCoordinates => dst.from = call.pre.from

\* a refresh of the whole chain in polar mode that moved the cartesian
\* camera and the projection of the lowest and of the highest dimension
C21_Witness ==
    /\ call.op = "updateMatrix"
    /\ call.at = MaxDim
    /\ dst.polarCoordinates
    /\ \A k \in {3, MaxDim} :
          /\ dst.from[k] # call.pre.from[k]
          /\ dst.projection[k] # call.pre.projection[k]
          /\ call.pre.projection[k] # call.pre.from[k]

---------------------------------------------------------------------------
(* Properties of the axis names *)

\* the number of symbols of the alphabet
AlphabetSize == 52

\* the name the naming rule gives the axis i
AxisName(i) ==
    IF i < AlphabetSize THEN SubSeq(cartesianDimensions, 1, AlphabetSize)[i + 1]
    ELSE "d-" \o ToString(i)

\* C22 as stated: for the axis i the encoder and the decoder both use the
\* i-th symbol of the 52-symbol alphabet when i < 52 and the indexed name
\* d-<i> for every i >= 52, so that no axis is named by a character outside
\* the alphabet.
C22_Original ==
    /\ (call.op = "metadata" /\ svg # <<>>) =>
          svg[1].args[1] = AxisName(call.at)
    /\ (call.op = "parse" /\ tmp # "") => tmp = AxisName(call.at)

\* the encoder has named the axis 52 by the terminator of the array
C22_Witness ==
    /\ call.op = "metadata"
    /\ call.at = AlphabetSize
    /\ svg = <<Op("attribute", <<"NUL">>)>>

---------------------------------------------------------------------------
(* Properties of the renderer's lifetime *)

\* C23 as stated: a renderer installed in a state chain is destroyed when a
\* later dispatch supersedes it, and when the chain is destroyed; once the
\* chain is destroyed no renderer that was bound to it is live.
C23_Original ==
    /\ (pc = "idle" /\ call.op = "apply" /\ call.pre.model # 0) =>
          ~heap[call.pre.model].live
    /\ pc = "destroyed" => LiveOwned("dst") = {}

\* a state chain has been destroyed and the renderer it held is live
C23_Witness ==
    /\ pc = "destroyed"
    /\ call.op = "~state"
    /\ dst.model # 0
    /\ heap[dst.model].live
    /\ heap[dst.model].owner = "dst"

---------------------------------------------------------------------------
(* Properties of the order of the two decodes *)

\* the renderer bound to the state chain s over the heap hp: its id, depth
\* and render depth, or none
Bound(s, hp) ==
    IF s.model = 0 THEN <<>>
    ELSE <<hp[s.model].id, hp[s.model].depth, hp[s.model].renderDepth,
           hp[s.model].live>>

\* the other of the two orders
OtherFirst(first) == IF first = "parse" THEN "parseModel" ELSE "parse"

\* the pair of decodes that began with first has left what the pair in the
\* other order leaves from the same state chain, heap and parser
SameAsOtherOrder(first) ==
    /\ dst = DecodeBoth(call.pre, call.preHeap, [parser EXCEPT !.node = tmp],
                        "dst", OtherFirst(first)).s
    /\ Bound(dst, heap)
          = Bound(dst, DecodeBoth(call.pre, call.preHeap,
                                  [parser EXCEPT !.node = tmp], "dst",
                                  OtherFirst(first)).heap)

\* C24: parse followed by parseModel on one parser leaves the same fields of
\* the state chain and the same bound renderer (id, depth, render depth) as
\* parseModel followed by parse, for every document and state chain.
C24_OrderIndependence ==
    \A first \in EntryPoints :
        call.op = PairName(first) => SameAsOtherOrder(first)

\* parse then parseModel over a description with a model: parse has changed
\* a camera and a colour and moved the context node, parseModel has bound a
\* renderer
C24_Witness ==
    /\ call.op = PairName("parse")
    /\ parser.doc = Metadata(src, heap)
    /\ dst.model # 0
    /\ call.pre.model = 0
    /\ call.ret = <<TRUE, TRUE>>
    /\ dst.surface # call.pre.surface
    /\ \E k \in 3..MaxDim : CameraChanged(k)
    /\ parser.node # tmp

---------------------------------------------------------------------------
(* Properties of the value a dispatch returns *)

\* C25: the value a dispatch has returned, from apply when it matched and
\* from pass when it did not, is true exactly when the state chain holds a
\* renderer when the call returns.
C25_DispatchResult ==
    /\ (pc = "idle" /\ call.op = "apply") => call.ret = (dst.model # 0)
    /\ call.op = "pass" => call.ret = (dst.model # 0)

\* the first dispatch on a state chain has matched: apply has installed a
\* renderer where there was none and has returned true
C25_Witness ==
    /\ pc = "idle"
    /\ call.op = "apply"
    /\ call.ret = TRUE
    /\ call.pre.model = 0
    /\ call.preHeap = <<>>
    /\ dst.model # 0

---------------------------------------------------------------------------
(* Properties of the live settings: a changed depth or render depth *)

---------------------------------------------------------------------------
(* C27: the colours of a value tree *)

\* what the claim asks of a colour's value c: an array long enough to have
\* the indices 1..4, with a number at each of them
ColourTaken(c) ==
    /\ c.type = "array"
    /\ Len(c.a) >= 5
    /\ \A i \in 2..5 : c.a[i].type = "number"

\* the colour a state chain s keeps under the key of a value tree
ColourOf(s, key) ==
    CASE key = "background" -> s.background
      [] key = "wireframe"  -> s.wireframe
      [] key = "surface"    -> s.surface

\* C27: after parse(dst, value) on an object, each of background, wireframe
\* and surface holds the numbers at the indices 1..4 of its array when the
\* value is an array of at least five elements with numbers at the four
\* indices, and holds the four components it had before the call otherwise,
\* whatever the values of the other two colours are.
C27_ColourAllOrNothing ==
    (call.op = "parse(value)" /\ json.type = "object") =>
        \A m \in 1..3 :
            ColourOf(dst, ColourKeys[m]) =
                IF ColourTaken(Get(json, ColourKeys[m]))
                THEN RGBA(Get(json, ColourKeys[m]).a[2].n,
                          Get(json, ColourKeys[m]).a[3].n,
                          Get(json, ColourKeys[m]).a[4].n,
                          Get(json, ColourKeys[m]).a[5].n)
                ELSE ColourOf(call.pre, ColourKeys[m])

\* a decode has taken the wireframe colour from its array and has kept the
\* background, whose array has null where the red component is, and the
\* surface, whose array has null where the alpha component is
C27_Witness ==
    /\ call.op = "parse(value)"
    /\ json = ColourValue(1, "gap1")
    /\ dst.wireframe = RGBA(22 * Unit, 23 * Unit, 24 * Unit, 25 * Unit)
    /\ dst.background = call.pre.background
    /\ dst.surface = call.pre.surface
    /\ dst.background # RGBA(0, 13 * Unit, 14 * Unit, 15 * Unit)

---------------------------------------------------------------------------
(* C28: the camera a value tree is decoded into *)

\* the places of the arrays of k elements among cameras that have a number
\* at index i
CamerasWithNumber(cameras, k, i) ==
    {n \in 1..Len(cameras) :
        /\ cameras[n].type = "array"
        /\ Len(cameras[n].a) = k
        /\ cameras[n].a[i + 1].type = "number"}

\* the camera of dimension k after the arrays of k elements among cameras
\* have been written over old in their order
WrittenCamera(cameras, k, old) ==
    [i \in 0..(k - 1) |->
        IF CamerasWithNumber(cameras, k, i) = {} THEN old[i]
        ELSE cameras[CHOOSE n \in CamerasWithNumber(cameras, k, i) :
                        \A o \in CamerasWithNumber(cameras, k, i) : o <= n]
                .a[i + 1].n]

\* C28: after parse(dst, value) on an object whose member camera is an
\* array, a document whose member polar is true has written the arrays of k
\* elements to the polar camera of dimension k and has left every cartesian
\* camera as it was, a document whose member polar is false or absent has
\* written them to the cartesian camera and has left every polar camera as
\* it was; and no parse(dst, value) changes polarCoordinates.
C28_CameraTarget ==
    /\ (call.op = "parse(value)" /\ json.type = "object"
            /\ Get(json, "camera").type = "array") =>
          \A k \in Dims :
            IF Get(json, "polar") = JBool(TRUE)
            THEN /\ dst.fromp[k] = WrittenCamera(Get(json, "camera").a, k,
                                                 call.pre.fromp[k])
                 /\ dst.from[k] = call.pre.from[k]
            ELSE /\ dst.from[k] = WrittenCamera(Get(json, "camera").a, k,
                                                call.pre.from[k])
                 /\ dst.fromp[k] = call.pre.fromp[k]
    /\ call.op = "parse(value)" =>
          dst.polarCoordinates = call.pre.polarCoordinates

\* a state in cartesian mode has decoded a document whose polar is true:
\* the polar camera of dimension MaxDim holds the numbers of the document
\* (of its last array, and of its first where the last has null), the
\* cartesian cameras and the mode are as they were; or a state in polar
\* mode has decoded a document without polar into its cartesian camera
C28_Witness ==
    /\ call.op = "parse(value)"
    /\ \/ /\ json = CameraValue(MaxDim, TRUE)
          /\ ~dst.polarCoordinates
          /\ dst.fromp[MaxDim][0] = 31 * Unit
          /\ dst.fromp[MaxDim][MaxDim - 1] = (10 + MaxDim) * Unit
          /\ dst.fromp[MaxDim] # call.pre.fromp[MaxDim]
          /\ dst.from = call.pre.from
       \/ /\ json = CameraValueNoMode(MaxDim)
          /\ dst.polarCoordinates
          /\ dst.from[MaxDim][0] = 31 * Unit
          /\ dst.from[MaxDim][MaxDim - 1] = (10 + MaxDim) * Unit
          /\ dst.from[MaxDim] # call.pre.from[MaxDim]
          /\ dst.fromp = call.pre.fromp

---------------------------------------------------------------------------
(* C29: the shape of the cameras metadata writes *)

\* the names of the attributes of the element el, in the order written
AttrNames(el) == [n \in 1..Len(el.attrs) |-> el.attrs[n][1]]

\* the names a camera of dimension k has: the radius and k - 1 angles, or
\* k coordinates
CameraNames(k, polar) ==
    IF polar
    THEN [n \in 1..k |-> IF n = 1 THEN "radius"
                         ELSE "theta-" \o ToString(n - 1)]
    ELSE [n \in 1..k |-> AxisName(n - 1)]

\* the elements of doc that carry the attribute mode
ModeFragments(doc) == {n \in 1..Len(doc) : HasAttr(doc[n], "mode")}

\* C29: in the document metadata() has written for a state in either camera
\* mode, for every dimension k from 3 up there is exactly one camera
\* element of k attributes, it is the (MaxDim - k + 1)-th element written,
\* its attributes are the radius and k - 1 angles or the k coordinates, and
\* it is not the element that carries the mode, which has one attribute.
C29_ShapeAgreement ==
    call.op = "metadata" =>
        /\ \A k \in 3..MaxDim :
              /\ Cameras(parser.doc, k) = {MaxDim - k + 1}
              /\ AttrNames(parser.doc[MaxDim - k + 1]) =
                     CameraNames(k, call.pre.polarCoordinates)
              /\ Cameras(parser.doc, k) \cap ModeFragments(parser.doc) = {}
        /\ \A n \in ModeFragments(parser.doc) :
              /\ parser.doc[n].name = "camera"
              /\ CountAttrs(parser.doc[n]) = 1

\* metadata() has written the polar cameras of a state with a bound model:
\* MaxDim - 2 cameras and, after them, the mode fragment of the base case
C29_Witness ==
    /\ call.op = "metadata"
    /\ call.pre.polarCoordinates
    /\ call.pre.model # 0
    /\ Cameras(parser.doc, MaxDim) = {1}
    /\ ModeFragments(parser.doc) = {MaxDim - 1}

---------------------------------------------------------------------------
(* C30: decoding a document twice *)

\* C30: when parse(dst, parser) has just decoded a valid document and the
\* next step is parse(dst, parser) again, with the same parser and the
\* context node where the first decode left it, the second decode leaves
\* the state chain as the first left it.
C30_Idempotence ==
    [][(/\ call.op = "parse" /\ parser.valid /\ pc = "idle"
        /\ call'.op = "parse" /\ call'.n = call.n + 1
        /\ parser'.doc = parser.doc)
           => dst' = dst]_vars

\* a document with two cameras of dimension MaxDim that are siblings has
\* been decoded twice: the context node is at the second of them, the state
\* holds what the two cameras give, and the second decode has changed
\* nothing
C30_Witness ==
    /\ call.op = "parse"
    /\ call.n = 2
    /\ call.ret
    /\ parser.doc = SiblingCameras(MaxDim)
    /\ parser.node = 3
    /\ dst.from[MaxDim][0] = 31 * Unit
    /\ dst.from[MaxDim][MaxDim - 1] = (10 + MaxDim) * Unit
    /\ call.pre = dst

====
